---- MODULE Spec2Model ----
(***************************************************************************)
(* A model of the cheque tool of src/tools/cheque.py: the amount parser,   *)
(* the range check, the Traditional Chinese and English numeral expanders  *)
(* and the cheque command that writes the two wording lines.               *)
(*                                                                         *)
(* Representation.                                                         *)
(*  - A text (Python str) is a sequence of tokens.  An input text is a     *)
(*    sequence of one-character strings.  A rendered wording is a sequence *)
(*    of glyph or word tokens; the blanks and hyphens of the English       *)
(*    wording are tokens of their own (" " and "-").                       *)
(*  - The CJK glyphs are written with ASCII names:                         *)
(*      ling U+96F6 (0)   yi U+58F9 (1)    er U+8CB3 (2)   san U+53C1 (3)  *)
(*      si U+8086 (4)     wu U+4F0D (5)    liu U+9678 (6)  qi U+67D2 (7)   *)
(*      ba U+634C (8)     jiu U+7396 (9)                                   *)
(*      qian U+4EDF (10^3 in a group)  bai U+4F70 (10^2)  shi U+62FE (10)  *)
(*      wan U+842C (10^4)  yik U+5104 (10^8)  zhao U+5146 (10^12)          *)
(*      yuan U+5143   zheng U+6B63   jiao U+89D2   fen U+5206              *)
(*  - A magnitude that can exceed 32 bits (a Decimal coefficient, the      *)
(*    dollars) is a sequence of decimal digits, most significant first,    *)
(*    without leading zeros; zero is <<0>>.  A Python int of that size is  *)
(*    a record [neg, mag] of a sign and a magnitude.  Group values, cents  *)
(*    and exponents are small and are plain integers.                      *)
(***************************************************************************)
EXTENDS Integers, Sequences, FiniteSets

VARIABLES pc, fn, value, dollars, cents, zh, en, arg, ret, out, err

\* the module-level tables of cheque.py and the calls of concurrent callers
VARIABLES tables, calls

\* the tree command: the file system and the order of its listings, the
\* arguments of show(), the rich Tree it builds
VARIABLES fs, listing, path, depth, skip, tree_obj

chequeVars == <<pc, fn, value, dollars, cents, zh, en, arg, ret, out, err>>

callVars == <<tables, calls>>

treeVars == <<fs, listing, path, depth, skip, tree_obj>>

\* the rename command of tree.py: the module file on disk, whether the
\* template tools/script.py is installed, whether the folder can be written,
\* whether the path exists, the --module and --func options, the module
\* object and the callback taken from it, the count of processed files
VARIABLES module_file, template, writable, exists, module, func, mod,
          callable_fn, processed

renameVars == <<module_file, template, writable, exists, module, func, mod,
                callable_fn, processed>>

\* the countdown command of clock.py: the arguments, the locals of
\* countdown(), the reading of time.monotonic() and what the Live display
\* shows
VARIABLES values, size, total, start, end, now, remaining, last_remaining,
          monotonic, live

clockVars == <<values, size, total, start, end, now, remaining, last_remaining,
               monotonic, live>>

\* the youtube command of youtube.py: the options, the locals of youtube(),
\* the directories it has created and the calls of extract_info it has made
VARIABLES video, audio, subtitle, list_formats, fmt, output_dir, ydl_opts,
          format_candidates, result, last_error, directories, attempts

youtubeVars == <<video, audio, subtitle, list_formats, fmt, output_dir, ydl_opts,
                 format_candidates, result, last_error, directories, attempts>>

\* the download of word_md.py: the files at output_path and at temp_path,
\* the body the server has, the chunks read so far, the ok flag, and the
\* statement at which the transfer fails
VARIABLES output_file, temp_file, served, chunks_read, ok, fault

wordVars == <<output_file, temp_file, served, chunks_read, ok, fault>>

\* the commands of the other tools
toolVars == <<renameVars, clockVars, youtubeVars, wordVars>>

vars == <<chequeVars, callVars, treeVars, toolVars>>

(***************************************************************************)
(* Bounds of the model.                                                    *)
(***************************************************************************)
\* longest input text drawn exhaustively over Alphabet
MaxLen == 4
\* longest digit string drawn for a direct call of an expander
MaxDigits == 16

(***************************************************************************)
(* Python int arithmetic on digit sequences.                               *)
(***************************************************************************)
Digit == 0..9

RECURSIVE Zeros(_)
Zeros(k) == IF k <= 0 THEN <<>> ELSE <<0>> \o Zeros(k - 1)

\* the canonical form of a digit sequence: no leading zeros, zero is <<0>>
RECURSIVE Strip(_)
Strip(ds) ==
    IF ds = <<>> THEN <<0>>
    ELSE IF Len(ds) > 1 /\ ds[1] = 0 THEN Strip(Tail(ds))
    ELSE ds

IsZero(ds) == Strip(ds) = <<0>>

\* the first Len(ds) - k digits and the last k digits of ds (k <= Len(ds))
DropLast(ds, k) == SubSeq(ds, 1, Len(ds) - k)
TakeLast(ds, k) == SubSeq(ds, Len(ds) - k + 1, Len(ds))

\* ds padded on the left with zeros to at least k digits
PadLeft(ds, k) == Zeros(k - Len(ds)) \o ds

\* the value of a short digit sequence as a plain integer
RECURSIVE SmallVal(_)
SmallVal(ds) ==
    IF ds = <<>> THEN 0 ELSE 10 * SmallVal(DropLast(ds, 1)) + ds[Len(ds)]

\* ds + 1
RECURSIVE Inc(_)
Inc(ds) ==
    IF ds = <<>> THEN <<1>>
    ELSE IF ds[Len(ds)] < 9 THEN DropLast(ds, 1) \o <<ds[Len(ds)] + 1>>
    ELSE Inc(DropLast(ds, 1)) \o <<0>>

\* m // 10^k and m % 10^k for a magnitude m; the remainder is a plain integer
FloorDivPow10(m, k) == Strip(DropLast(PadLeft(m, k), k))
ModPow10(m, k) == SmallVal(TakeLast(PadLeft(m, k), k))

\* a Python int: zero is never negative
PyInt(neg, mag) == [neg |-> neg /\ Strip(mag) # <<0>>, mag |-> Strip(mag)]

\* divmod(n, 100) of a Python int: the quotient rounds towards minus infinity
\* and the remainder is never negative
DivMod100(n) ==
    IF ~n.neg THEN <<PyInt(FALSE, FloorDivPow10(n.mag, 2)), ModPow10(n.mag, 2)>>
    ELSE IF ModPow10(n.mag, 2) = 0
    THEN <<PyInt(TRUE, FloorDivPow10(n.mag, 2)), 0>>
    ELSE <<PyInt(TRUE, Inc(FloorDivPow10(n.mag, 2))), 100 - ModPow10(n.mag, 2)>>

(***************************************************************************)
(* Python str operations on input texts.                                   *)
(***************************************************************************)
DigitChars == {"0", "1", "2", "3", "4", "5", "6", "7", "8", "9"}

DigitVal(c) ==
    CASE c = "0" -> 0 [] c = "1" -> 1 [] c = "2" -> 2 [] c = "3" -> 3
      [] c = "4" -> 4 [] c = "5" -> 5 [] c = "6" -> 6 [] c = "7" -> 7
      [] c = "8" -> 8 [] c = "9" -> 9

IsSpace(c) == c = " "

\* str.strip()
RECURSIVE StripWs(_)
StripWs(s) ==
    IF s = <<>> THEN s
    ELSE IF IsSpace(s[1]) THEN StripWs(Tail(s))
    ELSE IF IsSpace(s[Len(s)]) THEN StripWs(SubSeq(s, 1, Len(s) - 1))
    ELSE s

\* str.replace(c, "")
Remove(s, c) == SelectSeq(s, LAMBDA x : x # c)

\* str.lower() on the letters the numeric grammar knows
Lower(c) ==
    CASE c = "E" -> "e" [] c = "I" -> "i" [] c = "N" -> "n" [] c = "F" -> "f"
      [] c = "T" -> "t" [] c = "Y" -> "y" [] c = "A" -> "a" [] c = "S" -> "s"
      [] OTHER -> c

AllDigits(s) == \A i \in 1..Len(s) : s[i] \in DigitChars

DigitsOf(s) == [i \in 1..Len(s) |-> DigitVal(s[i])]

\* index of the first occurrence of c in s, 0 when there is none
FirstIndex(s, c) ==
    IF \E i \in 1..Len(s) : s[i] = c
    THEN CHOOSE i \in 1..Len(s) : s[i] = c /\ \A j \in 1..(i - 1) : s[j] # c
    ELSE 0

(***************************************************************************)
(* decimal.Decimal under the default context.  A Decimal is a record       *)
(* [kind, sign, int, exp]: kind is "num", "inf", "nan" or "invalid" (the    *)
(* constructor raised InvalidOperation); the value of a "num" is           *)
(* (-1)^sign * int * 10^exp.                                               *)
(***************************************************************************)
Prec == 28
Emax == 999999

Dec(kind, sign, int, exp) == [kind |-> kind, sign |-> sign, int |-> int, exp |-> exp]

InvalidOperation == Dec("invalid", 0, <<0>>, 0)

\* [-+]?\d+ : the exponent of a numeric string
ValidExp(x) ==
    LET signed == Len(x) > 0 /\ x[1] \in {"-", "+"}
        ds == IF signed THEN Tail(x) ELSE x
    IN  Len(ds) >= 1 /\ AllDigits(ds)

ExpVal(x) ==
    LET signed == Len(x) > 0 /\ x[1] \in {"-", "+"}
        ds == IF signed THEN Tail(x) ELSE x
        v == SmallVal(DigitsOf(ds))
    IN  IF signed /\ x[1] = "-" THEN 0 - v ELSE v

\* (s)?NaN\d*
IsNaNText(b) ==
    LET r == IF Len(b) > 0 /\ b[1] = "s" THEN Tail(b) ELSE b
    IN  /\ Len(r) >= 3
        /\ SubSeq(r, 1, 3) = <<"n", "a", "n">>
        /\ AllDigits(SubSeq(r, 4, Len(r)))

\* the text before, and the text after, the first c of s
Before(s, c) ==
    IF FirstIndex(s, c) = 0 THEN s ELSE SubSeq(s, 1, FirstIndex(s, c) - 1)

Behind(s, c) ==
    IF FirstIndex(s, c) = 0 THEN <<>> ELSE SubSeq(s, FirstIndex(s, c) + 1, Len(s))

\* the parts of a numeric string [-+]? \d* (\. \d*)? (E [-+]?\d+)?
HasSign(s) == Len(s) > 0 /\ s[1] \in {"-", "+"}

SignOf(s) == IF HasSign(s) /\ s[1] = "-" THEN 1 ELSE 0

Unsigned(s) == IF HasSign(s) THEN Tail(s) ELSE s

IntPart(body) == Before(Before(body, "e"), ".")

FracPart(body) == Behind(Before(body, "e"), ".")

HasExp(body) == FirstIndex(body, "e") # 0

ExpPart(body) == Behind(body, "e")

\* whether the unsigned text is a number with at least one digit
IsNumberText(body) ==
    /\ AllDigits(IntPart(body))
    /\ AllDigits(FracPart(body))
    /\ Len(IntPart(body)) + Len(FracPart(body)) >= 1
    /\ HasExp(body) => ValidExp(ExpPart(body))

NumberOf(sign, body) ==
    Dec("num", sign, Strip(DigitsOf(IntPart(body) \o FracPart(body))),
        (IF HasExp(body) THEN ExpVal(ExpPart(body)) ELSE 0) - Len(FracPart(body)))

\* the match of the lower-cased text against the numeric grammar
DecimalOfLower(s) ==
    IF IsNumberText(Unsigned(s)) THEN NumberOf(SignOf(s), Unsigned(s))
    ELSE IF Unsigned(s) \in {<<"i", "n", "f">>,
                             <<"i", "n", "f", "i", "n", "i", "t", "y">>}
    THEN Dec("inf", SignOf(s), <<0>>, 0)
    ELSE IF IsNaNText(Unsigned(s)) THEN Dec("nan", SignOf(s), <<0>>, 0)
    ELSE InvalidOperation

LowerText(t) == [i \in 1..Len(t) |-> Lower(t[i])]

\* Decimal(text): the constructor strips blanks, drops underscores and
\* matches the numeric grammar without regard to case
Decimal(text) == DecimalOfLower(LowerText(Remove(StripWs(text), "_")))

\* Decimal.is_finite()
IsFinite(d) == d.kind = "num"

\* Decimal.adjusted(): the exponent of the most significant digit
Adjusted(d) == Len(d.int) + d.exp - 1

\* Decimal._round_half_even: 1 when the first `keep` digits of ds round up
RoundsUp(ds, keep) ==
    LET rest == SubSeq(ds, keep + 1, Len(ds))
        exactHalf == rest[1] = 5 /\ \A i \in 2..Len(rest) : rest[i] = 0
        even == keep = 0 \/ ds[keep] % 2 = 0
    IN  IF exactHalf /\ even THEN FALSE ELSE rest[1] >= 5

\* Decimal._rescale(exp, ROUND_HALF_EVEN)
Rescale(d, exp) ==
    IF IsZero(d.int) THEN Dec("num", d.sign, <<0>>, exp)
    ELSE IF d.exp >= exp
    THEN Dec("num", d.sign, d.int \o Zeros(d.exp - exp), exp)
    ELSE LET digits0 == Len(d.int) + d.exp - exp
             src == IF digits0 < 0 THEN <<1>> ELSE d.int
             digits == IF digits0 < 0 THEN 0 ELSE digits0
             kept == SubSeq(src, 1, digits)
             coeff == IF RoundsUp(src, digits) THEN Inc(kept) ELSE kept
         IN  Dec("num", d.sign, Strip(coeff), exp)

\* Decimal._fix: round a result to the context precision
Fix(d) ==
    IF Len(d.int) > Prec THEN Rescale(d, Len(d.int) + d.exp - Prec) ELSE d

\* Decimal.quantize(exp): InvalidOperation when the result does not fit Prec
Quantize(d, q) ==
    IF IsZero(d.int) THEN Fix(Dec("num", d.sign, <<0>>, q.exp))
    ELSE IF Adjusted(d) > Emax THEN InvalidOperation
    ELSE IF Adjusted(d) - q.exp + 1 > Prec THEN InvalidOperation
    ELSE LET ans == Rescale(d, q.exp)
         IN  IF Adjusted(ans) > Emax \/ Len(ans.int) > Prec
             THEN InvalidOperation
             ELSE Fix(ans)

\* a == b for two finite Decimals (the comparison is by value)
DecEq(a, b) ==
    IF IsZero(a.int) \/ IsZero(b.int) THEN IsZero(a.int) /\ IsZero(b.int)
    ELSE /\ a.sign = b.sign
         /\ LET e == IF a.exp < b.exp THEN a.exp ELSE b.exp
            IN  a.int \o Zeros(a.exp - e) = b.int \o Zeros(b.exp - e)

\* a < 0 for a finite Decimal
DecNegative(a) == a.sign = 1 /\ ~IsZero(a.int)

\* d * 100 under the context: the exact product, rounded to Prec digits
Mul100(d) ==
    IF IsZero(d.int) THEN Fix(Dec("num", d.sign, <<0>>, d.exp))
    ELSE Fix(Dec("num", d.sign, d.int \o <<0, 0>>, d.exp))

\* Decimal.to_integral_value()
ToIntegralValue(d) == IF d.exp >= 0 THEN d ELSE Rescale(d, 0)

\* int(d): the integer part, with the sign of d
ToInt(d) ==
    IF d.exp >= 0 THEN PyInt(d.sign = 1, d.int \o Zeros(d.exp))
    ELSE PyInt(d.sign = 1, DropLast(PadLeft(d.int, 0 - d.exp), 0 - d.exp))


\* a > b for two magnitudes
MagGt(a, b) ==
    \/ Len(a) > Len(b)
    \/ /\ Len(a) = Len(b)
       /\ \E i \in 1..Len(a) :
            /\ a[i] > b[i]
            /\ \A j \in 1..(i - 1) : a[j] = b[j]

\* a > b for two Python ints
IntGt(a, b) ==
    IF a.neg THEN b.neg /\ MagGt(b.mag, a.mag)
    ELSE b.neg \/ MagGt(a.mag, b.mag)

(***************************************************************************)
(* The amount parser and the range check.  A result is a record            *)
(* [err, dollars, cents]; err is "none" or names the raise statement:      *)
(* "required", "not_a_number", "not_finite", "negative",                   *)
(* "too_many_decimals" and "too_large" are the typer.BadParameter raises,  *)
(* "InvalidOperation" is decimal.InvalidOperation leaving quantize, and    *)
(* "ValueError" is the scale error of an expander.                         *)
(***************************************************************************)
BadParameters ==
    {"required", "not_a_number", "not_finite", "negative", "too_many_decimals",
     "too_large"}

Raise(e) == [err |-> e, dollars |-> PyInt(FALSE, <<0>>), cents |-> 0]

Return(d, c) == [err |-> "none", dollars |-> d, cents |-> c]

\* a limit of 10^16 - 1
_MAX_DOLLARS_SixteenDigits == PyInt(FALSE, [i \in 1..16 |-> 9])

\* 10^15 - 1
_MAX_DOLLARS == PyInt(FALSE, [i \in 1..15 |-> 9])

_CENT_SCALE == Decimal(<<"0", ".", "0", "1">>)

\* raw.strip().replace(",", "")
CleanText(raw) == Remove(StripWs(raw), ",")

\* dollars, cents = divmod(minor_units, 100)
SplitMinorUnits(minor_units) ==
    Return(DivMod100(minor_units)[1], DivMod100(minor_units)[2])

\* ParseQuantized without the comparison: a third decimal is rounded away
ParseQuantized_Rounding(amount, quantized) ==
    IF quantized.kind = "invalid" THEN Raise("InvalidOperation")
    ELSE SplitMinorUnits(ToInt(ToIntegralValue(Mul100(quantized))))

\* _parse_amount from the comparison with the quantized amount on
ParseQuantized(amount, quantized) ==
    IF quantized.kind = "invalid" THEN Raise("InvalidOperation")
    ELSE IF ~DecEq(amount, quantized) THEN Raise("too_many_decimals")
    ELSE SplitMinorUnits(ToInt(ToIntegralValue(Mul100(quantized))))

\* ParseDecimal without the check of the sign
ParseDecimal_NoSignCheck(amount) ==
    IF amount.kind = "invalid" THEN Raise("not_a_number")
    ELSE IF ~IsFinite(amount) THEN Raise("not_finite")
    ELSE ParseQuantized(amount, Quantize(amount, _CENT_SCALE))

\* _parse_amount from the checks of the parsed amount on
ParseDecimal(amount) ==
    IF amount.kind = "invalid" THEN Raise("not_a_number")
    ELSE IF ~IsFinite(amount) THEN Raise("not_finite")
    ELSE IF DecNegative(amount) THEN Raise("negative")
    ELSE ParseQuantized(amount, Quantize(amount, _CENT_SCALE))

\* _parse_amount from the stripped text on
ParseText(text) ==
    IF text = <<>> THEN Raise("required") ELSE ParseDecimal(Decimal(text))

_parse_amount(raw) == ParseText(CleanText(raw))

\* the error _ensure_supported_range raises, "none" when it returns
_ensure_supported_range(d) ==
    IF IntGt(d, _MAX_DOLLARS) THEN "too_large" ELSE "none"

(***************************************************************************)
(* The Traditional Chinese expander.  A list of strings that is only ever  *)
(* joined with "" is kept as the joined token sequence: every string the   *)
(* code appends is non-empty, so the list is empty exactly when the joined *)
(* sequence is.                                                            *)
(***************************************************************************)
_DIGITS_UPPER ==
    [d \in Digit |->
        CASE d = 0 -> "ling" [] d = 1 -> "yi" [] d = 2 -> "er" [] d = 3 -> "san"
          [] d = 4 -> "si" [] d = 5 -> "wu" [] d = 6 -> "liu" [] d = 7 -> "qi"
          [] d = 8 -> "ba" [] d = 9 -> "jiu"]

\* thousands, hundreds, tens, ones
_UNIT_WITHIN_GROUP == << <<"qian">>, <<"bai">>, <<"shi">>, <<>> >>

_GROUP_UNITS == << <<>>, <<"wan">>, <<"yik">>, <<"zhao">> >>

\* the four digits of a group value, thousands first
GroupDigits(n) == <<(n \div 1000) % 10, (n \div 100) % 10, (n \div 10) % 10, n % 10>>

\* ConvertGroupLoop with a "ling" for every zero digit behind a glyph
RECURSIVE ConvertGroupLoop_LingPerZero(_, _, _, _)
ConvertGroupLoop_LingPerZero(digits, i, parts, zero_pending) ==
    IF i > Len(digits) THEN parts
    ELSE IF digits[i] = 0
    THEN ConvertGroupLoop_LingPerZero(digits, i + 1,
             parts \o (IF parts # <<>> THEN <<"ling">> ELSE <<>>), TRUE)
    ELSE ConvertGroupLoop_LingPerZero(digits, i + 1,
             parts \o <<_DIGITS_UPPER[digits[i]]>> \o _UNIT_WITHIN_GROUP[i], FALSE)

\* the for loop of _convert_group_zh from digit i on
RECURSIVE ConvertGroupLoop(_, _, _, _)
ConvertGroupLoop(digits, i, parts, zero_pending) ==
    IF i > Len(digits) THEN parts
    ELSE IF digits[i] = 0 THEN ConvertGroupLoop(digits, i + 1, parts, TRUE)
    ELSE LET sep == IF zero_pending /\ parts # <<>> THEN <<"ling">> ELSE <<>>
         IN  ConvertGroupLoop(digits, i + 1,
                 parts \o sep \o <<_DIGITS_UPPER[digits[i]]>> \o _UNIT_WITHIN_GROUP[i],
                 FALSE)

_convert_group_zh(n) ==
    IF n = 0 THEN <<>> ELSE ConvertGroupLoop(GroupDigits(n), 1, <<>>, FALSE)

\* MagGroups with the zero groups left out of the list
RECURSIVE MagGroups_SkipZero(_, _)
MagGroups_SkipZero(m, k) ==
    IF IsZero(m) THEN <<>>
    ELSE (IF ModPow10(m, k) = 0 THEN <<>> ELSE <<ModPow10(m, k)>>)
         \o MagGroups_SkipZero(FloorDivPow10(m, k), k)

\* the groups of a magnitude in base 10^k, lowest first
RECURSIVE MagGroups(_, _)
MagGroups(m, k) ==
    IF IsZero(m) THEN <<>>
    ELSE <<ModPow10(m, k)>> \o MagGroups(FloorDivPow10(m, k), k)

\* the while loop of an expander: no group is taken unless n > 0
Groups(n, k) == IF n.neg THEN <<>> ELSE MagGroups(n.mag, k)

\* TradChineseLoop without the test of parts before the "ling"
RECURSIVE TradChineseLoop_NoPartsTest(_, _, _, _)
TradChineseLoop_NoPartsTest(groups, idx, parts, zero_pending) ==
    IF idx < 1 THEN parts
    ELSE LET g == groups[idx]
         IN  IF g = 0
             THEN TradChineseLoop_NoPartsTest(groups, idx - 1, parts,
                                  IF parts # <<>> THEN TRUE ELSE zero_pending)
             ELSE LET sep == zero_pending \/ g < 1000
                  IN  TradChineseLoop_NoPartsTest(groups, idx - 1,
                          parts \o (IF sep THEN <<"ling">> ELSE <<>>)
                                \o _convert_group_zh(g) \o _GROUP_UNITS[idx],
                          IF sep THEN FALSE ELSE zero_pending)

\* TradChineseLoop with a "ling" for skipped groups only
RECURSIVE TradChineseLoop_PendingOnly(_, _, _, _)
TradChineseLoop_PendingOnly(groups, idx, parts, zero_pending) ==
    IF idx < 1 THEN parts
    ELSE LET g == groups[idx]
         IN  IF g = 0
             THEN TradChineseLoop_PendingOnly(groups, idx - 1, parts,
                                  IF parts # <<>> THEN TRUE ELSE zero_pending)
             ELSE LET sep == parts # <<>> /\ zero_pending
                  IN  TradChineseLoop_PendingOnly(groups, idx - 1,
                          parts \o (IF sep THEN <<"ling">> ELSE <<>>)
                                \o _convert_group_zh(g) \o _GROUP_UNITS[idx],
                          IF sep THEN FALSE ELSE zero_pending)

\* the for loop of _to_trad_chinese_upper from group idx (1-based) down
RECURSIVE TradChineseLoop(_, _, _, _)
TradChineseLoop(groups, idx, parts, zero_pending) ==
    IF idx < 1 THEN parts
    ELSE LET g == groups[idx]
         IN  IF g = 0
             THEN TradChineseLoop(groups, idx - 1, parts,
                                  IF parts # <<>> THEN TRUE ELSE zero_pending)
             ELSE LET sep == parts # <<>> /\ (zero_pending \/ g < 1000)
                  IN  TradChineseLoop(groups, idx - 1,
                          parts \o (IF sep THEN <<"ling">> ELSE <<>>)
                                \o _convert_group_zh(g) \o _GROUP_UNITS[idx],
                          IF sep THEN FALSE ELSE zero_pending)

\* a wording, or the exception the expander raised
Wording(t) == [raised |-> "none", text |-> t]

Raised(e) == [raised |-> e, text |-> <<>>]

\* _to_trad_chinese_upper with the scale check one group early
_to_trad_chinese_upper_EarlyCheck(n) ==
    LET groups == Groups(n, 4)
    IN  IF IsZero(n.mag) THEN Wording(<<"ling">>)
        ELSE IF Len(groups) >= Len(_GROUP_UNITS) THEN Raised("ValueError")
        ELSE Wording(TradChineseLoop(groups, Len(groups), <<>>, FALSE))

_to_trad_chinese_upper(n) ==
    LET groups == Groups(n, 4)
    IN  IF IsZero(n.mag) THEN Wording(<<"ling">>)
        ELSE IF Len(groups) > Len(_GROUP_UNITS) THEN Raised("ValueError")
        ELSE Wording(TradChineseLoop(groups, Len(groups), <<>>, FALSE))


(***************************************************************************)
(* The English expander.  A Python string is the sequence of its words,    *)
(* blanks (" ") and hyphens ("-"); a list of strings is a sequence of such *)
(* sequences.                                                              *)
(***************************************************************************)
_ONES ==
    <<"zero", "one", "two", "three", "four", "five", "six", "seven", "eight",
      "nine", "ten", "eleven", "twelve", "thirteen", "fourteen", "fifteen",
      "sixteen", "seventeen", "eighteen", "nineteen">>

_TENS ==
    << <<>>, <<>>, <<"twenty">>, <<"thirty">>, <<"forty">>, <<"fifty">>,
       <<"sixty">>, <<"seventy">>, <<"eighty">>, <<"ninety">> >>

_SCALE_EN == << <<>>, <<"thousand">>, <<"million">>, <<"billion">>, <<"trillion">> >>

\* sep.join(list)
RECURSIVE Join(_, _)
Join(list, sep) ==
    IF list = <<>> THEN <<>>
    ELSE IF Len(list) = 1 THEN list[1]
    ELSE list[1] \o sep \o Join(Tail(list), sep)

\* list(reversed(list))
Reversed(list) == [i \in 1..Len(list) |-> list[Len(list) + 1 - i]]

\* the first character in upper case: words[:1].upper() + words[1:]
UpperFirst(w) ==
    CASE w = "zero" -> "Zero" [] w = "one" -> "One" [] w = "two" -> "Two"
      [] w = "three" -> "Three" [] w = "four" -> "Four" [] w = "five" -> "Five"
      [] w = "six" -> "Six" [] w = "seven" -> "Seven" [] w = "eight" -> "Eight"
      [] w = "nine" -> "Nine" [] w = "ten" -> "Ten" [] w = "eleven" -> "Eleven"
      [] w = "twelve" -> "Twelve" [] w = "thirteen" -> "Thirteen"
      [] w = "fourteen" -> "Fourteen" [] w = "fifteen" -> "Fifteen"
      [] w = "sixteen" -> "Sixteen" [] w = "seventeen" -> "Seventeen"
      [] w = "eighteen" -> "Eighteen" [] w = "nineteen" -> "Nineteen"
      [] w = "twenty" -> "Twenty" [] w = "thirty" -> "Thirty"
      [] w = "forty" -> "Forty" [] w = "fifty" -> "Fifty" [] w = "sixty" -> "Sixty"
      [] w = "seventy" -> "Seventy" [] w = "eighty" -> "Eighty"
      [] w = "ninety" -> "Ninety" [] w = "and" -> "And"
      [] w = "hundred" -> "Hundred" [] w = "thousand" -> "Thousand"
      [] w = "million" -> "Million" [] w = "billion" -> "Billion"
      [] w = "trillion" -> "Trillion"
      [] OTHER -> w

\* Capitalise with the first character of every word in upper case
Capitalise_EveryWord(words) == [i \in 1..Len(words) |-> UpperFirst(words[i])]

Capitalise(words) ==
    IF words = <<>> THEN words ELSE <<UpperFirst(words[1])>> \o Tail(words)

_under_100_to_words(n) ==
    IF n < 20 THEN <<_ONES[n + 1]>>
    ELSE LET t == n \div 10
             r == n % 10
         IN  _TENS[t + 1] \o (IF r # 0 THEN <<"-", _ONES[r + 1]>> ELSE <<>>)

\* _under_1000_to_words without the "and" behind the hundreds
_under_1000_to_words_NoAnd(n) ==
    LET h == n \div 100
        r == n % 100
        parts ==
            IF h # 0
            THEN << <<_ONES[h + 1], " ", "hundred">> >>
                 \o (IF r # 0 THEN << _under_100_to_words(r) >> ELSE <<>>)
            ELSE IF r # 0 THEN << _under_100_to_words(r) >> ELSE <<>>
    IN  Join(parts, <<" ">>)

_under_1000_to_words(n) ==
    LET h == n \div 100
        r == n % 100
        parts ==
            IF h # 0
            THEN << <<_ONES[h + 1], " ", "hundred">> >>
                 \o (IF r # 0 THEN << <<"and", " ">> \o _under_100_to_words(r) >>
                     ELSE <<>>)
            ELSE IF r # 0 THEN << _under_100_to_words(r) >> ELSE <<>>
    IN  Join(parts, <<" ">>)

\* EnglishLoop without the skip of the zero groups
RECURSIVE EnglishLoop_KeepZeroGroups(_, _, _, _)
EnglishLoop_KeepZeroGroups(groups, i, words_parts, numeric_parts) ==
    IF i > Len(groups) THEN <<words_parts, numeric_parts>>
    ELSE LET g == groups[i]
             seg == _under_1000_to_words(g)
             scale == _SCALE_EN[i]
             piece == StripWs(seg \o (IF scale # <<>> THEN <<" ">> \o scale ELSE <<>>))
         IN  EnglishLoop_KeepZeroGroups(groups, i + 1, Append(words_parts, piece),
                                        Append(numeric_parts, g))

\* the first for loop of _to_english_hk from group i on: the pair
\* <<words_parts, numeric_parts>>, lowest group first
RECURSIVE EnglishLoop(_, _, _, _)
EnglishLoop(groups, i, words_parts, numeric_parts) ==
    IF i > Len(groups) THEN <<words_parts, numeric_parts>>
    ELSE LET g == groups[i]
             seg == _under_1000_to_words(g)
             scale == _SCALE_EN[i]
             piece == StripWs(seg \o (IF scale # <<>> THEN <<" ">> \o scale ELSE <<>>))
         IN  IF g = 0 THEN EnglishLoop(groups, i + 1, words_parts, numeric_parts)
             ELSE EnglishLoop(groups, i + 1, Append(words_parts, piece),
                              Append(numeric_parts, g))

\* _to_english_hk with the "and" before every last group below 1000
_to_english_hk_AndBelow1000(n) ==
    LET groups == Groups(n, 3)
        looped == EnglishLoop(groups, 1, <<>>, <<>>)
        words_parts == Reversed(looped[1])
        numeric_parts == Reversed(looped[2])
        last == Len(words_parts)
        words ==
            IF Len(words_parts) > 1 /\ numeric_parts[last] < 1000
            THEN Join(SubSeq(words_parts, 1, last - 1)
                      \o << <<"and", " ">> \o words_parts[last] >>, <<" ">>)
            ELSE Join(words_parts, <<" ">>)
    IN  IF IsZero(n.mag) THEN Wording(<<"Zero">>)
        ELSE IF Len(groups) > Len(_SCALE_EN) THEN Raised("ValueError")
        ELSE Wording(Capitalise(words))

_to_english_hk(n) ==
    LET groups == Groups(n, 3)
        looped == EnglishLoop(groups, 1, <<>>, <<>>)
        words_parts == Reversed(looped[1])
        numeric_parts == Reversed(looped[2])
        last == Len(words_parts)
        words ==
            IF Len(words_parts) > 1 /\ numeric_parts[last] < 100
            THEN Join(SubSeq(words_parts, 1, last - 1)
                      \o << <<"and", " ">> \o words_parts[last] >>, <<" ">>)
            ELSE Join(words_parts, <<" ">>)
    IN  IF IsZero(n.mag) THEN Wording(<<"Zero">>)
        ELSE IF Len(groups) > Len(_SCALE_EN) THEN Raised("ValueError")
        ELSE Wording(Capitalise(words))

(***************************************************************************)
(* The composers.                                                          *)
(***************************************************************************)
\* _to_zh_cents without the "ling" for a zero jiao digit
_to_zh_cents_NoLing(c) ==
    LET jiao == c \div 10
        fen == c % 10
    IN  IF c = 0 THEN <<"zheng">>
        ELSE (IF jiao # 0 THEN <<_DIGITS_UPPER[jiao], "jiao">> ELSE <<>>)
             \o (IF fen # 0 THEN <<_DIGITS_UPPER[fen], "fen">> ELSE <<>>)

_to_zh_cents(c) ==
    LET jiao == c \div 10
        fen == c % 10
    IN  IF c = 0 THEN <<"zheng">>
        ELSE (IF jiao # 0 THEN <<_DIGITS_UPPER[jiao], "jiao">>
              ELSE IF fen # 0 THEN <<"ling">> ELSE <<>>)
             \o (IF fen # 0 THEN <<_DIGITS_UPPER[fen], "fen">> ELSE <<>>)

\* _format_zh_amount that words the whole dollars only
_format_zh_amount_NoCents(d, c) ==
    LET dollars_text == _to_trad_chinese_upper(d)
    IN  IF dollars_text.raised # "none" THEN dollars_text
        ELSE Wording(dollars_text.text \o <<"yuan", "zheng">>)

_format_zh_amount(d, c) ==
    LET dollars_text == _to_trad_chinese_upper(d)
    IN  IF dollars_text.raised # "none" THEN dollars_text
        ELSE IF c = 0 THEN Wording(dollars_text.text \o <<"yuan", "zheng">>)
        ELSE Wording(dollars_text.text \o <<"yuan">> \o _to_zh_cents(c))

\* _format_en_amount with the plural unit for every number of cents
_format_en_amount_AlwaysPlural(d, c) ==
    LET dollars_text == _to_english_hk(d)
        cents_text == _under_100_to_words(c)
    IN  IF dollars_text.raised # "none" THEN dollars_text
        ELSE IF c = 0 THEN dollars_text
        ELSE Wording(dollars_text.text \o <<" ", "and", " ">> \o cents_text
                     \o <<" ", "cents">>)

_format_en_amount(d, c) ==
    LET dollars_text == _to_english_hk(d)
        cents_text == _under_100_to_words(c)
        cents_unit == IF c = 1 THEN "cent" ELSE "cents"
    IN  IF dollars_text.raised # "none" THEN dollars_text
        ELSE IF c = 0 THEN dollars_text
        ELSE Wording(dollars_text.text \o <<" ", "and", " ">> \o cents_text
                     \o <<" ", cents_unit>>)


(***************************************************************************)
(* The state of the other commands while one command runs.                 *)
(***************************************************************************)
\* the module-level names of cheque.py with the values of their definitions
ModuleTables ==
    [_MAX_DOLLARS |-> _MAX_DOLLARS,
     _CENT_SCALE |-> _CENT_SCALE,
     _DIGITS_UPPER |-> _DIGITS_UPPER,
     _UNIT_WITHIN_GROUP |-> _UNIT_WITHIN_GROUP,
     _GROUP_UNITS |-> _GROUP_UNITS,
     _ONES |-> _ONES,
     _TENS |-> _TENS,
     _SCALE_EN |-> _SCALE_EN]

\* the callers that call into cheque.py side by side
Callers == {1, 2}

\* a caller that is in no call: the arguments, the locals and the result of
\* a call are unset
NoCall ==
    [pc |-> "idle", fn |-> "none", d |-> PyInt(FALSE, <<0>>), c |-> 0,
     groups |-> <<>>, idx |-> 0, parts |-> <<>>, zero_pending |-> FALSE,
     numeric_parts |-> <<>>, text |-> <<>>, ret |-> <<>>, err |-> "none"]

\* the module is loaded and nobody calls it from a second thread
CallsIdle ==
    /\ tables = ModuleTables
    /\ calls = [k \in Callers |-> NoCall]

\* a file system without entries
NoFs == [p \in {} |-> "none"]

\* the tree command is not running
TreeIdle ==
    /\ fs = NoFs
    /\ listing = <<>>
    /\ path = <<>>
    /\ depth = 0
    /\ skip = FALSE
    /\ tree_obj = <<>>

\* a module file that is not on disk
NoFile == [there |-> FALSE, lines |-> <<>>, open |-> FALSE]

\* a module object that was never executed
NoModule == [n \in {} |-> "none"]

\* the rename command is not running
RenameIdle ==
    /\ module_file = NoFile
    /\ template = TRUE
    /\ writable = TRUE
    /\ exists = TRUE
    /\ module = <<>>
    /\ func = <<>>
    /\ mod = NoModule
    /\ callable_fn = "none"
    /\ processed = 0

\* last_remaining: int | None = None
None == 0 - 1

\* the countdown command is not running
ClockIdle ==
    /\ values = <<>>
    /\ size = "medium"
    /\ total = 0
    /\ start = 0
    /\ end = 0
    /\ now = 0
    /\ remaining = 0
    /\ last_remaining = None
    /\ monotonic = 0
    /\ live = <<>>

\* ydl_opts before the command fills it
NoOpts ==
    [outtmpl |-> "unset", format |-> "unset", skip_download |-> FALSE,
     writesubtitles |-> FALSE, writeautomaticsub |-> FALSE,
     subtitleslangs |-> <<>>, postprocessors |-> <<>>]

\* an option or a local that holds None
NoneStr == "None"

\* the youtube command is not running
YoutubeIdle ==
    /\ video = FALSE
    /\ audio = FALSE
    /\ subtitle = FALSE
    /\ list_formats = FALSE
    /\ fmt = NoneStr
    /\ output_dir = NoneStr
    /\ ydl_opts = NoOpts
    /\ format_candidates = <<>>
    /\ result = NoneStr
    /\ last_error = NoneStr
    /\ directories = {}
    /\ attempts = <<>>

\* a path where no file is
Absent == [there |-> FALSE, data |-> <<>>]

\* no download is running
WordIdle ==
    /\ output_file = Absent
    /\ temp_file = Absent
    /\ served = <<>>
    /\ chunks_read = 0
    /\ ok = FALSE
    /\ fault = [at |-> "none", chunk |-> 0]

\* the commands of the other tools are not running
ToolsIdle == RenameIdle /\ ClockIdle /\ YoutubeIdle /\ WordIdle

\* the cheque command is not running: its locals are unset
ChequeIdle ==
    /\ value = <<>>
    /\ dollars = PyInt(FALSE, <<0>>)
    /\ cents = 0
    /\ zh = <<>>
    /\ en = <<>>
    /\ arg = 0
    /\ ret = <<>>


(***************************************************************************)
(* The inputs.                                                             *)
(***************************************************************************)
\* the characters of the exhaustively drawn input texts
Alphabet == {"0", "1", "5", ".", ",", "-", "+", "e", " ", "_"}

BoundedTexts == UNION {[1..k -> Alphabet] : k \in 0..MaxLen}

Chars(n) == [i \in 1..Len(n) |-> CASE n[i] = 0 -> "0" [] n[i] = 1 -> "1"
                                   [] n[i] = 2 -> "2" [] n[i] = 3 -> "3"
                                   [] n[i] = 4 -> "4" [] n[i] = 5 -> "5"
                                   [] n[i] = 6 -> "6" [] n[i] = 7 -> "7"
                                   [] n[i] = 8 -> "8" [] n[i] = 9 -> "9"]

Nines(k) == [i \in 1..k |-> "9"]

\* the texts of the tests and of the documentation, and texts at the limits
ExampleTexts ==
    { <<"1", "2", "3">>,
      <<"1", "2", "3", ".", "4">>,
      <<"1", "2", "3", ".", "4", "5">>,
      <<"1", ",", "2", "3", "4", ".", "5", "0">>,
      <<"1", ".", "2", "3", "4">>,
      <<"1", ".", "2", "3", "0">>,
      <<"-", "1">>,
      <<"-", "1", ".", "2", "3", "4">>,
      <<"2", ",", "0", "0", "0", ",", "0", "0", "1">>,
      <<"1", "2", "0", "0", "3", "4">>,
      <<"0", ".", "0", "0", "5">>,
      <<"0", ".", "0", "1", "5">>,
      <<"1", ".", "2", "3", "4", "e", "3">>,
      <<"I", "n", "f", "i", "n", "i", "t", "y">>,
      <<"-", "I", "n", "f", "i", "n", "i", "t", "y">>,
      <<"-", "i", "n", "f">>,
      <<"N", "a", "N">>,
      <<"s", "N", "a", "N", "1">>,
      <<"1", "2", "a">>,
      <<"1", "e", "2", "6">>,
      <<"1", "e", "2", "5">>,
      <<"9", "e", "1", "4">>,
      Nines(15),
      Nines(15) \o <<".", "9", "9">>,
      <<"1">> \o Chars(Zeros(15)),
      Nines(16),
      Nines(26) \o <<".", "9", "9">>,
      Nines(26) \o <<".", "9", "9", "5">>,
      Nines(27),
      <<"1">> \o Chars(Zeros(26)) }

Texts == BoundedTexts \cup ExampleTexts

\* the digit strings over D of exactly k digits that are canonical numbers
DigitStrings(D, k) == {n \in [1..k -> D] : n[1] # 0}

\* every n < 10^4, and every n of up to MaxDigits digits that are all 0 or 1
BoundedNumbers ==
    {<<0>>}
    \cup UNION {DigitStrings(Digit, k) : k \in 1..4}
    \cup UNION {DigitStrings({0, 1}, k) : k \in 5..MaxDigits}

\* the numbers of the documentation, and numbers at the limits of the scales
ExampleNumbers ==
    { <<1, 2, 0, 0, 3, 4>>,
      <<2, 0, 0, 0, 0, 0, 1>>,
      <<1, 0, 0, 0, 0, 0, 5>>,
      <<1, 0, 2, 1>>,
      [i \in 1..15 |-> 9],
      <<1>> \o Zeros(15),
      [i \in 1..16 |-> 9],
      <<1>> \o Zeros(16),
      <<1>> \o Zeros(15) \o <<1>>,
      [i \in 1..17 |-> 9] }

Numbers == {PyInt(FALSE, n) : n \in BoundedNumbers \cup ExampleNumbers}


(***************************************************************************)
(* The cheque command: one action per statement of cheque().  pc names the *)
(* statement to execute next, "done" after the last one and "raised" after *)
(* an exception left the command; out is what has been written to standard *)
(* output, one element per line.                                           *)
(***************************************************************************)
\* After with each line written as soon as its wording is there, the range
\* check between the two
After_WriteEarly(s) ==
    CASE s = "parse" -> "format_zh"
      [] s = "format_zh" -> "echo_zh"
      [] s = "echo_zh" -> "range"
      [] s = "range" -> "format_en"
      [] s = "format_en" -> "echo_en"
      [] s = "echo_en" -> "done"

\* the statement that follows statement s in the body of cheque()
After(s) ==
    CASE s = "parse" -> "range"
      [] s = "range" -> "format_zh"
      [] s = "format_zh" -> "format_en"
      [] s = "format_en" -> "echo_zh"
      [] s = "echo_zh" -> "echo_en"
      [] s = "echo_en" -> "done"

ZhLine(t) == <<"zhongwen", ":", "gangbi">> \o t

EnLine(t) ==
    <<"English:", " ", "Hong", " ", "Kong", " ", "Dollars", " ">> \o t \o <<" ", "only">>

InitCheque ==
    /\ pc = "parse"
    /\ fn = "cheque"
    /\ value \in Texts
    /\ dollars = PyInt(FALSE, <<0>>)
    /\ cents = 0
    /\ zh = <<>>
    /\ en = <<>>
    /\ arg = PyInt(FALSE, <<0>>)
    /\ ret = <<>>
    /\ out = <<>>
    /\ err = "none"
    /\ CallsIdle
    /\ TreeIdle
    /\ ToolsIdle

\* dollars, cents = _parse_amount(value)
ParseAmount ==
    /\ fn = "cheque"
    /\ pc = "parse"
    /\ LET r == _parse_amount(value)
       IN  IF r.err # "none"
           THEN /\ pc' = "raised"
                /\ err' = r.err
                /\ UNCHANGED <<dollars, cents>>
           ELSE /\ pc' = After("parse")
                /\ dollars' = r.dollars
                /\ cents' = r.cents
                /\ UNCHANGED err
    /\ UNCHANGED <<callVars, treeVars, toolVars>>
    /\ UNCHANGED <<fn, value, zh, en, arg, ret, out>>

\* _ensure_supported_range(dollars)
EnsureSupportedRange ==
    /\ fn = "cheque"
    /\ pc = "range"
    /\ LET e == _ensure_supported_range(dollars)
       IN  IF e # "none"
           THEN pc' = "raised" /\ err' = e
           ELSE pc' = After("range") /\ UNCHANGED err
    /\ UNCHANGED <<callVars, treeVars, toolVars>>
    /\ UNCHANGED <<fn, value, dollars, cents, zh, en, arg, ret, out>>

\* zh = _format_zh_amount(dollars, cents)
FormatZh ==
    /\ fn = "cheque"
    /\ pc = "format_zh"
    /\ LET r == _format_zh_amount(dollars, cents)
       IN  IF r.raised # "none"
           THEN pc' = "raised" /\ err' = r.raised /\ UNCHANGED zh
           ELSE pc' = After("format_zh") /\ zh' = r.text /\ UNCHANGED err
    /\ UNCHANGED <<callVars, treeVars, toolVars>>
    /\ UNCHANGED <<fn, value, dollars, cents, en, arg, ret, out>>

\* en = _format_en_amount(dollars, cents)
FormatEn ==
    /\ fn = "cheque"
    /\ pc = "format_en"
    /\ LET r == _format_en_amount(dollars, cents)
       IN  IF r.raised # "none"
           THEN pc' = "raised" /\ err' = r.raised /\ UNCHANGED en
           ELSE pc' = After("format_en") /\ en' = r.text /\ UNCHANGED err
    /\ UNCHANGED <<callVars, treeVars, toolVars>>
    /\ UNCHANGED <<fn, value, dollars, cents, zh, arg, ret, out>>

\* typer.echo of the Chinese line
EchoZh ==
    /\ fn = "cheque"
    /\ pc = "echo_zh"
    /\ out' = Append(out, ZhLine(zh))
    /\ pc' = After("echo_zh")
    /\ UNCHANGED <<callVars, treeVars, toolVars>>
    /\ UNCHANGED <<fn, value, dollars, cents, zh, en, arg, ret, err>>

\* typer.echo of the English line
EchoEn ==
    /\ fn = "cheque"
    /\ pc = "echo_en"
    /\ out' = Append(out, EnLine(en))
    /\ pc' = After("echo_en")
    /\ UNCHANGED <<callVars, treeVars, toolVars>>
    /\ UNCHANGED <<fn, value, dollars, cents, zh, en, arg, ret, err>>

Next ==
    \/ ParseAmount
    \/ EnsureSupportedRange
    \/ FormatZh
    \/ FormatEn
    \/ EchoZh
    \/ EchoEn

Spec == InitCheque /\ [][Next]_vars

(***************************************************************************)
(* Direct calls of the expanders, as the unit tests make them: fn is the   *)
(* function called, arg its argument, ret what it returned and err the     *)
(* exception it raised.                                                    *)
(***************************************************************************)
GroupValues == 0..9999

InitExpand ==
    /\ pc = "call"
    /\ \/ fn = "_convert_group_zh" /\ arg \in GroupValues
       \/ fn = "_to_trad_chinese_upper" /\ arg \in Numbers
       \/ fn = "_to_english_hk" /\ arg \in Numbers
    /\ value = <<>>
    /\ dollars = PyInt(FALSE, <<0>>)
    /\ cents = 0
    /\ zh = <<>>
    /\ en = <<>>
    /\ ret = <<>>
    /\ out = <<>>
    /\ err = "none"
    /\ CallsIdle
    /\ TreeIdle
    /\ ToolsIdle

CallConvertGroupZh ==
    /\ pc = "call"
    /\ fn = "_convert_group_zh"
    /\ ret' = _convert_group_zh(arg)
    /\ pc' = "returned"
    /\ UNCHANGED <<callVars, treeVars, toolVars>>
    /\ UNCHANGED <<fn, value, dollars, cents, zh, en, arg, out, err>>

CallToTradChineseUpper ==
    /\ pc = "call"
    /\ fn = "_to_trad_chinese_upper"
    /\ LET r == _to_trad_chinese_upper(arg)
       IN  ret' = r.text /\ err' = r.raised
    /\ pc' = "returned"
    /\ UNCHANGED <<callVars, treeVars, toolVars>>
    /\ UNCHANGED <<fn, value, dollars, cents, zh, en, arg, out>>

CallToEnglishHk ==
    /\ pc = "call"
    /\ fn = "_to_english_hk"
    /\ LET r == _to_english_hk(arg)
       IN  ret' = r.text /\ err' = r.raised
    /\ pc' = "returned"
    /\ UNCHANGED <<callVars, treeVars, toolVars>>
    /\ UNCHANGED <<fn, value, dollars, cents, zh, en, arg, out>>

NextExpand ==
    \/ CallConvertGroupZh
    \/ CallToTradChineseUpper
    \/ CallToEnglishHk

SpecExpand == InitExpand /\ [][NextExpand]_vars


(***************************************************************************)
(* Direct calls of the group helper and of the two composers, as the tests *)
(* make them: the arguments of a composer are in dollars and cents.        *)
(***************************************************************************)
\* the groups _under_1000_to_words is called with
EnglishGroupValues == 0..999

\* the cents a composer is called with
CentValues == 0..99

\* the dollars a composer is called with: the tests' and values at the limits
DollarValues ==
    {PyInt(FALSE, n) :
        n \in { <<0>>, <<1>>, <<1, 0>>, <<1, 2, 3>>, <<1, 0, 0, 1>>,
                <<1, 2, 0, 0, 3, 4>>, <<1, 0, 0, 1, 0, 0, 0>>,
                [i \in 1..15 |-> 9],
                <<1>> \o Zeros(15),
                [i \in 1..16 |-> 9],
                <<1>> \o Zeros(16) }}

InitFormat ==
    /\ pc = "call"
    /\ \/ fn = "_under_1000_to_words" /\ arg \in EnglishGroupValues
                /\ dollars = PyInt(FALSE, <<0>>) /\ cents = 0
       \/ fn \in {"_format_zh_amount", "_format_en_amount"} /\ arg = 0
                /\ dollars \in DollarValues /\ cents \in CentValues
    /\ value = <<>>
    /\ zh = <<>>
    /\ en = <<>>
    /\ ret = <<>>
    /\ out = <<>>
    /\ err = "none"
    /\ CallsIdle
    /\ TreeIdle
    /\ ToolsIdle

CallUnder1000ToWords ==
    /\ pc = "call"
    /\ fn = "_under_1000_to_words"
    /\ ret' = _under_1000_to_words(arg)
    /\ pc' = "returned"
    /\ UNCHANGED <<callVars, treeVars, toolVars>>
    /\ UNCHANGED <<fn, value, dollars, cents, zh, en, arg, out, err>>

CallFormatZhAmount ==
    /\ pc = "call"
    /\ fn = "_format_zh_amount"
    /\ LET r == _format_zh_amount(dollars, cents)
       IN  ret' = r.text /\ err' = r.raised
    /\ pc' = "returned"
    /\ UNCHANGED <<callVars, treeVars, toolVars>>
    /\ UNCHANGED <<fn, value, dollars, cents, zh, en, arg, out>>

CallFormatEnAmount ==
    /\ pc = "call"
    /\ fn = "_format_en_amount"
    /\ LET r == _format_en_amount(dollars, cents)
       IN  ret' = r.text /\ err' = r.raised
    /\ pc' = "returned"
    /\ UNCHANGED <<callVars, treeVars, toolVars>>
    /\ UNCHANGED <<fn, value, dollars, cents, zh, en, arg, out>>

NextFormat ==
    \/ CallUnder1000ToWords
    \/ CallFormatZhAmount
    \/ CallFormatEnAmount

SpecFormat == InitFormat /\ [][NextFormat]_vars


(***************************************************************************)
(* Two callers inside the composers at the same time.  A call runs one     *)
(* loop iteration, or one straight piece of code, per step; it reads the   *)
(* tables where the module keeps them and keeps its locals in its frame.   *)
(***************************************************************************)
\* the dollars and cents the concurrent callers pass
CallDollars ==
    {PyInt(FALSE, n) :
        n \in { <<0>>, <<3, 4>>, <<1, 2, 0, 0, 3, 4>>, <<2, 0, 0, 0, 0, 0, 1>>,
                <<1>> \o Zeros(16) }}

CallCents == {0, 5, 40}

\* the frame that holds the locals of the call of caller k: each call
\* creates its lists anew
Frame_OneForAll(k) == CHOOSE j \in Callers : \A i \in Callers : j <= i

Frame(k) == k

\* the module-level names after a step of function f: no statement of a
\* function body assigns to one or changes a table in place
ModuleAfter(f, t) == t

\* caller k calls f(d, c)
Enter(k) ==
    /\ calls[k].pc = "idle"
    /\ \E f \in {"_format_zh_amount", "_format_en_amount"},
          d \in CallDollars, c \in CallCents :
          calls' = [calls EXCEPT ![k].fn = f, ![k].d = d, ![k].c = c,
                                 ![k].pc = IF f = "_format_zh_amount"
                                           THEN "zh_groups" ELSE "en_groups"]
    /\ tables' = tables
    /\ UNCHANGED <<chequeVars, treeVars, toolVars>>

\* _to_trad_chinese_upper up to its for loop
ZhGroups(k) ==
    /\ calls[k].pc = "zh_groups"
    /\ LET n == calls[k].d
           groups == Groups(n, 4)
       IN  calls' =
             IF IsZero(n.mag)
             THEN [calls EXCEPT ![Frame(k)].text = <<"ling">>,
                                ![k].pc = "zh_compose"]
             ELSE IF Len(groups) > Len(tables._GROUP_UNITS)
             THEN [calls EXCEPT ![k].err = "ValueError", ![k].pc = "returned"]
             ELSE [calls EXCEPT ![Frame(k)].groups = groups,
                                ![Frame(k)].idx = Len(groups),
                                ![Frame(k)].parts = <<>>,
                                ![Frame(k)].zero_pending = FALSE,
                                ![k].pc = "zh_loop"]
    /\ tables' = ModuleAfter("_to_trad_chinese_upper", tables)
    /\ UNCHANGED <<chequeVars, treeVars, toolVars>>

\* one iteration of the for loop of _to_trad_chinese_upper, or its end
ZhLoop(k) ==
    /\ calls[k].pc = "zh_loop"
    /\ LET l == calls[Frame(k)]
           g == l.groups[l.idx]
           sep == l.parts # <<>> /\ (l.zero_pending \/ g < 1000)
       IN  calls' =
             IF l.idx < 1
             THEN [calls EXCEPT ![Frame(k)].text = l.parts,
                                ![k].pc = "zh_compose"]
             ELSE IF l.idx > Len(l.groups) \/ l.idx > Len(tables._GROUP_UNITS)
             THEN [calls EXCEPT ![k].err = "IndexError", ![k].pc = "returned"]
             ELSE IF g = 0
             THEN [calls EXCEPT ![Frame(k)].zero_pending =
                                    IF l.parts # <<>> THEN TRUE ELSE @,
                                ![Frame(k)].idx = @ - 1]
             ELSE [calls EXCEPT ![Frame(k)].parts =
                                    @ \o (IF sep THEN <<"ling">> ELSE <<>>)
                                      \o _convert_group_zh(g)
                                      \o tables._GROUP_UNITS[l.idx],
                                ![Frame(k)].zero_pending =
                                    IF sep THEN FALSE ELSE @,
                                ![Frame(k)].idx = @ - 1]
    /\ tables' = ModuleAfter("_to_trad_chinese_upper", tables)
    /\ UNCHANGED <<chequeVars, treeVars, toolVars>>

\* _format_zh_amount behind the call of _to_trad_chinese_upper
ZhCompose(k) ==
    /\ calls[k].pc = "zh_compose"
    /\ LET dollars_text == calls[Frame(k)].text
           c == calls[k].c
       IN  calls' = [calls EXCEPT
                        ![k].ret = IF c = 0 THEN dollars_text \o <<"yuan", "zheng">>
                                   ELSE dollars_text \o <<"yuan">> \o _to_zh_cents(c),
                        ![k].pc = "returned"]
    /\ tables' = ModuleAfter("_format_zh_amount", tables)
    /\ UNCHANGED <<chequeVars, treeVars, toolVars>>

\* _to_english_hk up to its first for loop
EnGroups(k) ==
    /\ calls[k].pc = "en_groups"
    /\ LET n == calls[k].d
           groups == Groups(n, 3)
       IN  calls' =
             IF IsZero(n.mag)
             THEN [calls EXCEPT ![Frame(k)].text = <<"Zero">>,
                                ![k].pc = "en_compose"]
             ELSE IF Len(groups) > Len(tables._SCALE_EN)
             THEN [calls EXCEPT ![k].err = "ValueError", ![k].pc = "returned"]
             ELSE [calls EXCEPT ![Frame(k)].groups = groups,
                                ![Frame(k)].idx = 1,
                                ![Frame(k)].parts = <<>>,
                                ![Frame(k)].numeric_parts = <<>>,
                                ![k].pc = "en_loop"]
    /\ tables' = ModuleAfter("_to_english_hk", tables)
    /\ UNCHANGED <<chequeVars, treeVars, toolVars>>

\* one iteration of the first for loop of _to_english_hk, or its end
EnLoop(k) ==
    /\ calls[k].pc = "en_loop"
    /\ LET l == calls[Frame(k)]
           g == l.groups[l.idx]
           scale == tables._SCALE_EN[l.idx]
           piece == StripWs(_under_1000_to_words(g)
                            \o (IF scale # <<>> THEN <<" ">> \o scale ELSE <<>>))
       IN  calls' =
             IF l.idx > Len(l.groups)
             THEN [calls EXCEPT ![k].pc = "en_join"]
             ELSE IF l.idx < 1 \/ l.idx > Len(tables._SCALE_EN)
             THEN [calls EXCEPT ![k].err = "IndexError", ![k].pc = "returned"]
             ELSE IF g = 0
             THEN [calls EXCEPT ![Frame(k)].idx = @ + 1]
             ELSE IF g > 999
             THEN [calls EXCEPT ![k].err = "AssertionError", ![k].pc = "returned"]
             ELSE [calls EXCEPT ![Frame(k)].parts = Append(@, piece),
                                ![Frame(k)].numeric_parts = Append(@, g),
                                ![Frame(k)].idx = @ + 1]
    /\ tables' = ModuleAfter("_to_english_hk", tables)
    /\ UNCHANGED <<chequeVars, treeVars, toolVars>>

\* _to_english_hk behind its first for loop
EnJoin(k) ==
    /\ calls[k].pc = "en_join"
    /\ LET l == calls[Frame(k)]
           words_parts == Reversed(l.parts)
           numeric_parts == Reversed(l.numeric_parts)
           last == Len(words_parts)
           words ==
               IF numeric_parts[Len(numeric_parts)] < 100
               THEN Join(SubSeq(words_parts, 1, last - 1)
                         \o << <<"and", " ">> \o words_parts[last] >>, <<" ">>)
               ELSE Join(words_parts, <<" ">>)
       IN  calls' =
             IF Len(words_parts) <= 1
             THEN [calls EXCEPT ![Frame(k)].text = Capitalise(Join(words_parts, <<" ">>)),
                                ![k].pc = "en_compose"]
             ELSE IF numeric_parts = <<>>
             THEN [calls EXCEPT ![k].err = "IndexError", ![k].pc = "returned"]
             ELSE [calls EXCEPT ![Frame(k)].text = Capitalise(words),
                                ![k].pc = "en_compose"]
    /\ tables' = ModuleAfter("_to_english_hk", tables)
    /\ UNCHANGED <<chequeVars, treeVars, toolVars>>

\* _format_en_amount behind the call of _to_english_hk
EnCompose(k) ==
    /\ calls[k].pc = "en_compose"
    /\ LET dollars_text == calls[Frame(k)].text
           c == calls[k].c
           cents_unit == IF c = 1 THEN "cent" ELSE "cents"
       IN  calls' = [calls EXCEPT
                        ![k].ret = IF c = 0 THEN dollars_text
                                   ELSE dollars_text \o <<" ", "and", " ">>
                                          \o _under_100_to_words(c)
                                          \o <<" ", cents_unit>>,
                        ![k].pc = "returned"]
    /\ tables' = ModuleAfter("_format_en_amount", tables)
    /\ UNCHANGED <<chequeVars, treeVars, toolVars>>

\* the caller is done with the result of its call
Leave(k) ==
    /\ calls[k].pc = "returned"
    /\ calls' = [calls EXCEPT ![k] = NoCall]
    /\ tables' = tables
    /\ UNCHANGED <<chequeVars, treeVars, toolVars>>

InitConcurrent ==
    /\ pc = "idle"
    /\ fn = "none"
    /\ value = <<>>
    /\ dollars = PyInt(FALSE, <<0>>)
    /\ cents = 0
    /\ zh = <<>>
    /\ en = <<>>
    /\ arg = 0
    /\ ret = <<>>
    /\ out = <<>>
    /\ err = "none"
    /\ CallsIdle
    /\ TreeIdle
    /\ ToolsIdle

NextConcurrent ==
    \E k \in Callers :
        \/ Enter(k)
        \/ ZhGroups(k)
        \/ ZhLoop(k)
        \/ ZhCompose(k)
        \/ EnGroups(k)
        \/ EnLoop(k)
        \/ EnJoin(k)
        \/ EnCompose(k)
        \/ Leave(k)

SpecConcurrent == InitConcurrent /\ [][NextConcurrent]_vars


(***************************************************************************)
(* The tree command (tools/tree.py).  A file name is the sequence of its   *)
(* characters, a path the sequence of its names; the file system gives the *)
(* kind of every path that exists: "dir", "file", or "locked" for a        *)
(* directory that may not be listed.                                       *)
(***************************************************************************)
\* the deepest level of the file systems
MaxLevel == 3

\* the home directory, the root of the file systems
Home == << <<"r">> >>

\* os.path.expanduser(p)
expanduser(p) == IF p # <<>> /\ p[1] = <<"~">> THEN Home \o Tail(p) ELSE p

\* the characters of a path, its names joined with "/"
RECURSIVE PathText(_)
PathText(p) ==
    IF p = <<>> THEN <<>>
    ELSE IF Len(p) = 1 THEN p[1]
    ELSE p[1] \o <<"/">> \o PathText(Tail(p))

\* os.path.isdir(p)
isdir(p) == p \in DOMAIN fs /\ fs[p] \in {"dir", "locked"}

\* os.listdir(p): the names in p in the order of the listing, or the OSError
listdir(p) ==
    IF p \notin DOMAIN fs THEN [raised |-> "FileNotFoundError", names |-> <<>>]
    ELSE IF fs[p] = "file" THEN [raised |-> "NotADirectoryError", names |-> <<>>]
    ELSE IF fs[p] = "locked" THEN [raised |-> "PermissionError", names |-> <<>>]
    ELSE [raised |-> "none",
          names |-> SelectSeq(listing, LAMBDA n : Append(p, n) \in DOMAIN fs)]

\* rich.tree.Tree(label)
Tree(label) == [label |-> label, children |-> <<>>]

\* tree.add(label) for the tree that results, with branch the added child
TreeAdd(tree, branch) == [tree EXCEPT !.children = Append(@, branch)]

\* _add_tree gives the tree with what it added, or raises
Built(tree) == [raised |-> "none", tree |-> tree]

Failed(e, tree) == [raised |-> e, tree |-> tree]

RECURSIVE _add_tree(_, _, _, _, _)
RECURSIVE AddTreeLoop(_, _, _, _, _, _, _)
\* the for loop of _add_tree from entry i of entries on
AddTreeLoop(tree, p, entries, i, max_depth, current_level, skip_hidden) ==
    IF i > Len(entries) THEN Built(tree)
    ELSE LET entry == entries[i]
             full_path == Append(expanduser(p), entry)
             branch == _add_tree(Tree(<<" ">> \o entry), full_path, max_depth,
                                 current_level + 1, skip_hidden)
         IN  IF skip_hidden /\ entry[1] \in {".", "_"}
             THEN AddTreeLoop(tree, p, entries, i + 1, max_depth, current_level,
                              skip_hidden)
             ELSE IF isdir(full_path)
             THEN IF branch.raised # "none"
                  THEN Failed(branch.raised, TreeAdd(tree, branch.tree))
                  ELSE AddTreeLoop(TreeAdd(tree, branch.tree), p, entries, i + 1,
                                   max_depth, current_level, skip_hidden)
             ELSE AddTreeLoop(TreeAdd(tree, Tree(<<" ">> \o entry)), p, entries,
                              i + 1, max_depth, current_level, skip_hidden)

\* _add_tree that stops one level early
_add_tree_StopsEarly(tree, p, max_depth, current_level, skip_hidden) ==
    IF max_depth # 0 /\ current_level >= max_depth THEN Built(tree)
    ELSE LET ls == listdir(expanduser(p))
         IN  IF ls.raised = "PermissionError"
             THEN Built(TreeAdd(tree, Tree(<<"[red]Permission Denied[/red]">>)))
             ELSE IF ls.raised # "none" THEN Failed(ls.raised, tree)
             ELSE AddTreeLoop(tree, p, ls.names, 1, max_depth, current_level,
                              skip_hidden)

_add_tree(tree, p, max_depth, current_level, skip_hidden) ==
    IF max_depth # 0 /\ current_level > max_depth THEN Built(tree)
    ELSE LET ls == listdir(expanduser(p))
         IN  IF ls.raised = "PermissionError"
             THEN Built(TreeAdd(tree, Tree(<<"[red]Permission Denied[/red]">>)))
             ELSE IF ls.raised # "none" THEN Failed(ls.raised, tree)
             ELSE AddTreeLoop(tree, p, ls.names, 1, max_depth, current_level,
                              skip_hidden)

\* print(tree_obj): a line for every node, with its level, parents first
RECURSIVE RenderTree(_, _)
RECURSIVE RenderChildren(_, _, _)
RenderChildren(children, i, level) ==
    IF i > Len(children) THEN <<>>
    ELSE RenderTree(children[i], level) \o RenderChildren(children, i + 1, level)

RenderTree(tree, level) ==
    << [level |-> level, text |-> tree.label] >>
        \o RenderChildren(tree.children, 1, level + 1)

\* the names of the entries: a directory, a hidden directory, a file, a
\* hidden file
DirName == <<"a">>

HiddenDirName == <<"_", "p">>

FileName == <<"f">>

HiddenFileName == <<".", "h">>

\* the orders in which os.listdir gives the names
Listings ==
    { <<DirName, HiddenDirName, FileName, HiddenFileName>>,
      <<HiddenFileName, FileName, HiddenDirName, DirName>> }

\* the contents of directory p, as pairs of a path and its kind, with
\* entries down to h levels below p: no file or both files, and no
\* directory or one directory, which may be hidden or locked
RECURSIVE FsBelow(_, _)
FsBelow(p, h) ==
    IF h = 0 THEN {{}}
    ELSE LET files == { {}, { <<Append(p, FileName), "file">>,
                              <<Append(p, HiddenFileName), "file">> } }
             dirs == { <<DirName, "dir">>, <<HiddenDirName, "dir">>,
                       <<DirName, "locked">> }
             subs == {{}} \cup UNION { { {<<Append(p, e[1]), e[2]>>} \cup below :
                                           below \in FsBelow(Append(p, e[1]), h - 1) } :
                                       e \in dirs }
         IN  { f \cup sub : f \in files, sub \in subs }

\* the file system with the entries of pairs
FsOf(pairs) ==
    [q \in {x[1] : x \in pairs} |-> (CHOOSE x \in pairs : x[1] = q)[2]]

FileSystems == { FsOf({<<Home, "dir">>} \cup c) : c \in FsBelow(Home, MaxLevel) }

\* the PATH arguments: the root, the root by way of "~", a file, none
Targets == { Home, << <<"~">> >>, Append(Home, FileName), <<>> }

\* the --depth options
Depths == (0 - 1)..MaxLevel

InitTree ==
    /\ pc = "show"
    /\ fn = "show"
    /\ fs \in FileSystems
    /\ listing \in Listings
    /\ path \in Targets
    /\ depth \in Depths
    /\ skip \in BOOLEAN
    /\ tree_obj = <<>>
    /\ value = <<>>
    /\ dollars = PyInt(FALSE, <<0>>)
    /\ cents = 0
    /\ zh = <<>>
    /\ en = <<>>
    /\ arg = 0
    /\ ret = <<>>
    /\ out = <<>>
    /\ err = "none"
    /\ CallsIdle
    /\ ToolsIdle

\* show(path, depth, skip)
Show ==
    /\ fn = "show"
    /\ pc = "show"
    /\ LET root == Tree(<<"D", "i", "r", "e", "c", "t", "o", "r", "y", ":", " ">>
                        \o PathText(path))
           r == _add_tree(root, path, depth, 1, skip)
       IN  IF path = <<>>
           THEN pc' = "raised" /\ err' = "BadParameter" /\ UNCHANGED <<tree_obj, out>>
           ELSE IF r.raised # "none"
           THEN /\ pc' = "raised"
                /\ err' = r.raised
                /\ tree_obj' = r.tree
                /\ UNCHANGED out
           ELSE /\ pc' = "done"
                /\ tree_obj' = r.tree
                /\ out' = RenderTree(r.tree, 0)
                /\ UNCHANGED err
    /\ UNCHANGED <<fn, value, dollars, cents, zh, en, arg, ret>>
    /\ UNCHANGED <<callVars, toolVars, fs, listing, path, depth, skip>>

NextTree == Show

SpecTree == InitTree /\ [][NextTree]_vars


(***************************************************************************)
(* The two composers called with two amounts: dollars and cents are the    *)
(* first amount and arg, a record [d, c], is the second; zh and en are the *)
(* wordings of the first amount and ret is the pair of wordings of the     *)
(* second.                                                                 *)
(***************************************************************************)
\* the largest whole-dollar value of the amounts drawn exhaustively
MaxSmall == 110

\* the decimal digits of an int n >= 0
RECURSIVE NatDigits(_)
NatDigits(n) == IF n < 10 THEN <<n>> ELSE NatDigits(n \div 10) \o <<n % 10>>

\* 10^k
PowerOfTen(k) == <<1>> \o Zeros(k)

\* whole-dollar values inside the supported range: the small ones, the
\* powers of ten, and values with zeros inside and between their groups
PairDollars ==
    {PyInt(FALSE, NatDigits(n)) : n \in 0..MaxSmall}
    \cup {PyInt(FALSE, PowerOfTen(k)) : k \in 3..14}
    \cup {PyInt(FALSE, PowerOfTen(k) \o <<1>>) : k \in {2, 3, 6, 7, 10, 13}}
    \cup {PyInt(FALSE, n) :
            n \in { <<1, 0, 1, 0>>, <<1, 1, 0, 0>>, <<1, 0, 0, 1, 0>>,
                    <<1, 0, 1, 0, 0>>, <<1, 1, 0, 0, 0>>, <<1, 0, 0, 1, 0, 0>>,
                    <<1, 0, 0, 0, 1, 0>>, <<1, 2, 0, 0, 3, 4>>,
                    <<1, 0, 0, 1, 0, 0, 0>>, <<1, 0, 0, 0, 1, 0, 0>>,
                    <<1, 0, 0, 0, 1, 0, 0, 0, 0>>, <<1, 0, 0, 0, 0, 1, 0, 0, 0>>,
                    [i \in 1..15 |-> 9] }}

PairCents == {0, 1, 10, 11, 99}

PairAmounts == [d : PairDollars, c : PairCents]

InitWording ==
    /\ pc = "call"
    /\ fn = "_format_zh_amount, _format_en_amount"
    /\ dollars \in PairDollars
    /\ cents \in PairCents
    /\ arg \in PairAmounts
    /\ value = <<>>
    /\ zh = <<>>
    /\ en = <<>>
    /\ ret = <<>>
    /\ out = <<>>
    /\ err = "none"
    /\ CallsIdle
    /\ TreeIdle
    /\ ToolsIdle

\* the wording of a composer's result, <<"raised">> and the exception when
\* it raised
TextOf(r) == IF r.raised # "none" THEN <<"raised", r.raised>> ELSE r.text

CallFormatPair ==
    /\ pc = "call"
    /\ fn = "_format_zh_amount, _format_en_amount"
    /\ zh' = TextOf(_format_zh_amount(dollars, cents))
    /\ en' = TextOf(_format_en_amount(dollars, cents))
    /\ ret' = <<TextOf(_format_zh_amount(arg.d, arg.c)),
                TextOf(_format_en_amount(arg.d, arg.c))>>
    /\ pc' = "returned"
    /\ UNCHANGED <<fn, value, dollars, cents, arg, out, err>>
    /\ UNCHANGED <<callVars, treeVars, toolVars>>

NextWording == CallFormatPair

SpecWording == InitWording /\ [][NextWording]_vars


(***************************************************************************)
(* The rename command of tree.py up to the calls of the callback.  A       *)
(* source file is a record [there, lines, open]: there says that the file  *)
(* is on disk, lines are its lines, each a sequence of tokens, and open    *)
(* says that the last line has no line terminator.  A name is the sequence *)
(* of its characters.  A module object maps its attribute names to the     *)
(* kind of the value: "function", "module", "int" or "str".                *)
(***************************************************************************)
custom_func == <<"c", "u", "s", "t", "o", "m", "_", "f", "u", "n", "c">>

test == <<"t", "e", "s", "t">>

re == <<"r", "e">>

os == <<"o", "s">>

class == <<"c", "l", "a", "s", "s">>

my_func == <<"m", "y", "-", "f", "u", "n", "c">>

__name__ == <<"_", "_", "n", "a", "m", "e", "_", "_">>

x == <<"x">>

\* the keywords of Python that occur in the inputs
Keywords == {class, <<"d", "e", "f">>, <<"i", "m", "p", "o", "r", "t">>}

IdentifierStart ==
    {"a", "b", "c", "d", "e", "f", "g", "h", "i", "j", "k", "l", "m", "n", "o",
     "p", "q", "r", "s", "t", "u", "v", "w", "x", "y", "z", "_"}

IdentifierPart == IdentifierStart \cup {"0", "1", "2", "3", "4", "5", "6", "7", "8", "9"}

\* a name that the grammar of Python takes where it wants an identifier
IsIdentifier(name) ==
    /\ name # <<>>
    /\ name[1] \in IdentifierStart
    /\ \A i \in 1..Len(name) : name[i] \in IdentifierPart
    /\ name \notin Keywords

\* f"def {func}(filepath: str):"
DefLine(name) == <<"def", " ">> \o name \o <<"(", "filepath: str", ")", ":">>

DocLine == <<"    ", "doc">>

PassLine == <<"    ", "pass">>

ReturnLine == <<"    ", "return">>

ImportLine(name) == <<"import", " ">> \o name

AssignLine(name) == name \o <<" ", "=", " ", "1">>

\* the three lines the command appends for a missing function
Stub(name) == <<DefLine(name), DocLine, PassLine>>

\* tools/script.py
script_py ==
    [there |-> TRUE,
     lines |-> <<ImportLine(re), ImportLine(os), <<>>, DefLine(test), DocLine,
                 <<>>, ReturnLine, <<>> >>,
     open |-> FALSE]

\* shutil.copyfile(template_path, module_file)
copyfile(src) == src

\* open(module_file, 'w') with f.write("")
EmptyFile == [there |-> TRUE, lines |-> <<>>, open |-> FALSE]

\* open(file, 'a') and one f.write(line + "\n") per line: the first write
\* continues a last line that has no terminator
AppendLines(file, new) ==
    IF file.open /\ file.lines # <<>>
    THEN LET n == Len(file.lines)
         IN  [there |-> TRUE,
              lines |-> SubSeq(file.lines, 1, n - 1)
                        \o << file.lines[n] \o Head(new) >> \o Tail(new),
              open |-> FALSE]
    ELSE [there |-> TRUE, lines |-> file.lines \o new, open |-> FALSE]

\* the index of the first token tok of a line, 0 when there is none
RECURSIVE Find(_, _, _)
Find(line, tok, i) ==
    IF i > Len(line) THEN 0
    ELSE IF line[i] = tok THEN i
    ELSE Find(line, tok, i + 1)

\* the statement of a line that is not indented: [kind, name], kind "error"
\* for a line that is no statement of the grammar
Statement(line) ==
    IF Head(line) = "import"
    THEN LET name == SubSeq(line, 3, Len(line))
         IN  IF Len(line) >= 3 /\ line[2] = " " /\ IsIdentifier(name)
             THEN [kind |-> "module", name |-> name]
             ELSE [kind |-> "error", name |-> <<>>]
    ELSE IF Head(line) = "def"
    THEN LET p == Find(line, "(", 1)
             name == SubSeq(line, 3, p - 1)
         IN  IF p > 3 /\ line[2] = " " /\ IsIdentifier(name)
                /\ SubSeq(line, p, Len(line)) = <<"(", "filepath: str", ")", ":">>
             THEN [kind |-> "function", name |-> name]
             ELSE [kind |-> "error", name |-> <<>>]
    ELSE LET p == Find(line, " ", 1)
             name == SubSeq(line, 1, p - 1)
         IN  IF p > 1 /\ IsIdentifier(name)
                /\ SubSeq(line, p, Len(line)) = <<" ", "=", " ", "1">>
             THEN [kind |-> "int", name |-> name]
             ELSE [kind |-> "error", name |-> <<>>]

\* the names a new module object has before its source runs
FreshModule == [n \in {__name__} |-> "str"]

\* m with the name bound to a value of the kind
Bind(m, name, kind) ==
    [n \in DOMAIN m \cup {name} |-> IF n = name THEN kind ELSE m[n]]

\* the source compiled and run line by line: where is "top" outside a
\* function, "header" after the def line of a function and "body" inside
\* its block.  The result is [raised, mod]; a source that does not compile
\* raises before any statement runs.
RECURSIVE ExecLines(_, _, _, _, _)
ExecLines(lines, i, where, m, before) ==
    IF i > Len(lines)
    THEN IF where = "header"
         THEN [raised |-> "SyntaxError", mod |-> before]
         ELSE [raised |-> "none", mod |-> m]
    ELSE IF lines[i] = <<>> THEN ExecLines(lines, i + 1, where, m, before)
    ELSE IF Head(lines[i]) = "    "
    THEN IF where = "top"
         THEN [raised |-> "SyntaxError", mod |-> before]
         ELSE ExecLines(lines, i + 1, "body", m, before)
    ELSE IF where = "header" THEN [raised |-> "SyntaxError", mod |-> before]
    ELSE LET st == Statement(lines[i])
         IN  IF st.kind = "error"
             THEN [raised |-> "SyntaxError", mod |-> before]
             ELSE ExecLines(lines, i + 1,
                            IF st.kind = "function" THEN "header" ELSE "top",
                            Bind(m, st.name, st.kind), before)

\* spec.loader.exec_module(mod) on the source of the module file
exec_module(m, file) == ExecLines(file.lines, 1, "top", m, m)

hasattr(m, name) == name \in DOMAIN m

callable(kind) == kind = "function"

\* the module files found in the folder before the command runs
ModuleFiles ==
    {NoFile, EmptyFile, script_py,
     [there |-> TRUE, lines |-> <<AssignLine(x)>>, open |-> FALSE],
     [there |-> TRUE, lines |-> <<AssignLine(x)>>, open |-> TRUE],
     [there |-> TRUE, lines |-> <<AssignLine(custom_func)>>, open |-> FALSE],
     [there |-> TRUE, lines |-> <<DefLine(custom_func), ReturnLine>>, open |-> FALSE],
     [there |-> TRUE, lines |-> <<DefLine(my_func), ReturnLine>>, open |-> FALSE]}

\* the values of --func
Funcs == {custom_func, test, re, class, my_func, __name__}

InitRename ==
    /\ pc = "path"
    /\ fn = "rename"
    /\ module_file \in ModuleFiles
    /\ template \in BOOLEAN
    /\ writable \in BOOLEAN
    /\ exists \in BOOLEAN
    /\ module = <<"s", "c", "r", "i", "p", "t">>
    /\ func \in Funcs
    /\ mod = NoModule
    /\ callable_fn = "none"
    /\ processed = 0
    /\ out = <<>>
    /\ err = "none"
    /\ ChequeIdle
    /\ CallsIdle
    /\ TreeIdle
    /\ ClockIdle
    /\ YoutubeIdle
    /\ WordIdle

\* typer.secho(message) and raise typer.Exit(code=1)
Exit1(message) ==
    /\ pc' = "raised"
    /\ err' = "Exit(1)"
    /\ out' = out \o message

\* path = os.path.expanduser(path); if not os.path.exists(path): ...
CheckPath ==
    /\ fn = "rename"
    /\ pc = "path"
    /\ IF exists
       THEN pc' = "module_file" /\ UNCHANGED <<out, err>>
       ELSE Exit1(<<"Path does not exist">>)
    /\ UNCHANGED <<fn, value, dollars, cents, zh, en, arg, ret>>
    /\ UNCHANGED <<callVars, treeVars, toolVars>>

\* if not os.path.isfile(module_file): copy the template or create an empty
\* file; a folder that cannot be written raises inside the try
CreateModuleFile ==
    /\ fn = "rename"
    /\ pc = "module_file"
    /\ IF module_file.there
       THEN pc' = "exec" /\ UNCHANGED <<module_file, out, err>>
       ELSE IF ~writable
       THEN Exit1(<<"Failed to create module file">>) /\ UNCHANGED module_file
       ELSE IF template
       THEN /\ module_file' = copyfile(script_py)
            /\ out' = out \o <<"Created module from template">>
            /\ pc' = "exec"
            /\ UNCHANGED err
       ELSE /\ module_file' = EmptyFile
            /\ out' = out \o <<"Template not found. Created empty module file">>
            /\ pc' = "exec"
            /\ UNCHANGED err
    /\ UNCHANGED <<fn, value, dollars, cents, zh, en, arg, ret>>
    /\ UNCHANGED <<callVars, treeVars, clockVars, youtubeVars, wordVars>>
    /\ UNCHANGED <<template, writable, exists, module, func, mod, callable_fn, processed>>

\* mod = importlib.util.module_from_spec(spec); spec.loader.exec_module(mod)
ExecModule ==
    /\ fn = "rename"
    /\ pc = "exec"
    /\ LET r == exec_module(FreshModule, module_file)
       IN  /\ mod' = r.mod
           /\ IF r.raised # "none"
              THEN Exit1(<<"Error executing imported function">>)
              ELSE pc' = "hasattr" /\ UNCHANGED <<out, err>>
    /\ UNCHANGED <<fn, value, dollars, cents, zh, en, arg, ret>>
    /\ UNCHANGED <<callVars, treeVars, clockVars, youtubeVars, wordVars>>
    /\ UNCHANGED <<module_file, template, writable, exists, module, func,
                   callable_fn, processed>>

\* if not hasattr(mod, func): append the stub and execute the module again
EnsureFunction ==
    /\ fn = "rename"
    /\ pc = "hasattr"
    /\ IF hasattr(mod, func)
       THEN pc' = "getattr" /\ UNCHANGED <<module_file, mod, out, err>>
       ELSE IF ~writable
       THEN /\ Exit1(<<"Failed to create function stub",
                       "Error executing imported function">>)
            /\ UNCHANGED <<module_file, mod>>
       ELSE LET written == AppendLines(module_file, Stub(func))
                r == exec_module(mod, written)
            IN  /\ module_file' = written
                /\ mod' = r.mod
                /\ IF r.raised # "none"
                   THEN Exit1(<<"Function not found. Created empty function stub",
                                "Failed to create function stub",
                                "Error executing imported function">>)
                   ELSE /\ pc' = "getattr"
                        /\ out' = out \o <<"Function not found. Created empty function stub">>
                        /\ UNCHANGED err
    /\ UNCHANGED <<fn, value, dollars, cents, zh, en, arg, ret>>
    /\ UNCHANGED <<callVars, treeVars, clockVars, youtubeVars, wordVars>>
    /\ UNCHANGED <<template, writable, exists, module, func, callable_fn, processed>>

\* callable_fn = getattr(mod, func); if not callable(callable_fn): ...
GetCallable ==
    /\ fn = "rename"
    /\ pc = "getattr"
    /\ callable_fn' = mod[func]
    /\ IF callable(mod[func])
       THEN pc' = "files" /\ UNCHANGED <<out, err>>
       ELSE Exit1(<<"Attribute is not callable",
                    "Error executing imported function">>)
    /\ UNCHANGED <<fn, value, dollars, cents, zh, en, arg, ret>>
    /\ UNCHANGED <<callVars, treeVars, clockVars, youtubeVars, wordVars>>
    /\ UNCHANGED <<module_file, template, writable, exists, module, func, mod,
                   processed>>

\* for file_path in _iter_files(path, recursive): callable_fn(file_path); the
\* folder holds the module file alone, whose call is counted; what a
\* callback returns is not kept, so the print of its result is left out
ProcessFiles ==
    /\ fn = "rename"
    /\ pc = "files"
    /\ processed' = 1
    /\ out' = out \o <<"Processed 1 file(s).">>
    /\ pc' = "done"
    /\ UNCHANGED <<fn, value, dollars, cents, zh, en, arg, ret, err>>
    /\ UNCHANGED <<callVars, treeVars, clockVars, youtubeVars, wordVars>>
    /\ UNCHANGED <<module_file, template, writable, exists, module, func, mod,
                   callable_fn>>

NextRename ==
    \/ CheckPath
    \/ CreateModuleFile
    \/ ExecModule
    \/ EnsureFunction
    \/ GetCallable
    \/ ProcessFiles

SpecRename == InitRename /\ [][NextRename]_vars


(***************************************************************************)
(* The countdown of clock.py.  The texts are sequences of characters, the  *)
(* integers parsed from them are plain integers.                           *)
(***************************************************************************)
\* longest countdown text drawn exhaustively over SpecChars
MaxSpecLen == 7

DigitChar(d) ==
    CASE d = 0 -> "0" [] d = 1 -> "1" [] d = 2 -> "2" [] d = 3 -> "3"
      [] d = 4 -> "4" [] d = 5 -> "5" [] d = 6 -> "6" [] d = 7 -> "7"
      [] d = 8 -> "8" [] d = 9 -> "9"

\* str(n) of an int n >= 0
RECURSIVE DecimalText(_)
DecimalText(n) ==
    IF n < 10 THEN <<DigitChar(n)>>
    ELSE DecimalText(n \div 10) \o <<DigitChar(n % 10)>>

\* f"{n:02d}" without the padding
TwoDigits_NoPadding(n) == DecimalText(n)

\* f"{n:02d}" of an int n >= 0
TwoDigits(n) ==
    IF n < 10 THEN <<"0">> \o DecimalText(n) ELSE DecimalText(n)

_format_hms(total_seconds) ==
    LET clamped == IF total_seconds < 0 THEN 0 ELSE total_seconds
        h == clamped \div 3600
        m == (clamped % 3600) \div 60
        sec == clamped % 60
    IN  TwoDigits(h) \o <<":">> \o TwoDigits(m) \o <<":">> \o TwoDigits(sec)

\* re.findall(r"\d+", spec): the maximal runs of digits from left to right;
\* run is the run being read
RECURSIVE FindAllDigits(_, _, _, _)
FindAllDigits(s, i, run, found) ==
    IF i > Len(s)
    THEN IF run = <<>> THEN found ELSE Append(found, run)
    ELSE IF s[i] \in DigitChars
    THEN FindAllDigits(s, i + 1, Append(run, s[i]), found)
    ELSE FindAllDigits(s, i + 1, <<>>,
                       IF run = <<>> THEN found ELSE Append(found, run))

\* int(s) of a run of digits
RECURSIVE int(_)
int(s) ==
    IF s = <<>> THEN 0
    ELSE int(SubSeq(s, 1, Len(s) - 1)) * 10 + DigitVal(s[Len(s)])

\* a return value of _parse_countdown_spec
Seconds(n) == [raised |-> "none", total |-> n]

\* two integers read as minutes and seconds
TwoIntegers_MinutesSeconds(nums) == Seconds(nums[1] * 60 + nums[2])

\* elif len(nums) == 2: h, m = nums
TwoIntegers(nums) == Seconds(nums[1] * 3600 + nums[2] * 60)

\* any number of integers taken for hours, minutes and seconds
_parse_countdown_spec_NoCount(spec) ==
    LET parts == FindAllDigits(spec, 1, <<>>, <<>>)
        nums == [i \in 1..Len(parts) |-> int(parts[i])]
    IN  IF spec = <<>> THEN [raised |-> "BadParameter", total |-> 0]
        ELSE IF parts = <<>> THEN [raised |-> "BadParameter", total |-> 0]
        ELSE IF Len(nums) = 1 THEN Seconds(nums[1])
        ELSE IF Len(nums) = 2 THEN TwoIntegers(nums)
        ELSE Seconds(nums[1] * 3600 + nums[2] * 60 + nums[3])

_parse_countdown_spec(spec) ==
    LET parts == FindAllDigits(spec, 1, <<>>, <<>>)
        nums == [i \in 1..Len(parts) |-> int(parts[i])]
    IN  IF spec = <<>> THEN [raised |-> "BadParameter", total |-> 0]
        ELSE IF parts = <<>> THEN [raised |-> "BadParameter", total |-> 0]
        ELSE IF Len(nums) = 1 THEN Seconds(nums[1])
        ELSE IF Len(nums) = 2 THEN TwoIntegers(nums)
        ELSE IF Len(nums) = 3 THEN Seconds(nums[1] * 3600 + nums[2] * 60 + nums[3])
        ELSE [raised |-> "BadParameter", total |-> 0]

\* the characters of the countdown texts: digits and two separators
SpecChars == {"0", "1", "2", ":", " "}

SpecTexts == UNION {[1..n -> SpecChars] : n \in 0..MaxSpecLen}

\* the arguments of the direct calls of _format_hms
HmsValues ==
    ((0 - 3)..7300) \cup {35999, 36000, 86399, 86400, 359999, 360000, 360001}

(***************************************************************************)
(* Direct calls of the two pure functions of clock.py: value is the text   *)
(* argument, arg the int argument, ret the text and total the int          *)
(* returned.                                                               *)
(***************************************************************************)
InitClock ==
    /\ pc = "call"
    /\ \/ fn = "_parse_countdown_spec" /\ value \in SpecTexts /\ arg = 0
       \/ fn = "_format_hms" /\ value = <<>> /\ arg \in HmsValues
    /\ dollars = PyInt(FALSE, <<0>>)
    /\ cents = 0
    /\ zh = <<>>
    /\ en = <<>>
    /\ ret = <<>>
    /\ out = <<>>
    /\ err = "none"
    /\ CallsIdle
    /\ TreeIdle
    /\ ToolsIdle

CallParseCountdownSpec ==
    /\ pc = "call"
    /\ fn = "_parse_countdown_spec"
    /\ LET r == _parse_countdown_spec(value)
       IN  /\ total' = r.total
           /\ err' = r.raised
           /\ pc' = IF r.raised = "none" THEN "returned" ELSE "raised"
    /\ UNCHANGED <<fn, value, dollars, cents, zh, en, arg, ret, out>>
    /\ UNCHANGED <<callVars, treeVars, renameVars, youtubeVars, wordVars>>
    /\ UNCHANGED <<values, size, start, end, now, remaining, last_remaining,
                   monotonic, live>>

CallFormatHms ==
    /\ pc = "call"
    /\ fn = "_format_hms"
    /\ ret' = _format_hms(arg)
    /\ pc' = "returned"
    /\ UNCHANGED <<fn, value, dollars, cents, zh, en, arg, out, err>>
    /\ UNCHANGED <<callVars, treeVars, toolVars>>

NextClock == CallParseCountdownSpec \/ CallFormatHms

SpecClock == InitClock /\ [][NextClock]_vars


(***************************************************************************)
(* The countdown command: one action per statement of countdown().  The    *)
(* readings of time.monotonic() are counted in ticks, TicksPerSecond of    *)
(* them in a second; the clock never goes back, and a sleep lasts at least *)
(* as long as asked.  live is the time text the display shows, <<>> before *)
(* the first update.                                                       *)
(***************************************************************************)
\* the resolution of the clock readings
TicksPerSecond == 2

\* the last reading of the clock that is followed
MaxClock == 10

\* the longest time, in ticks, by which a statement or a sleep runs late
MaxLag == 2

medium == <<"m", "e", "d", "i", "u", "m">>

small == <<"s", "m", "a", "l", "l">>

\* the keys of SIZE_PRESETS
SIZE_PRESETS ==
    {small, medium, <<"l", "a", "r", "g", "e">>, <<"x", "l", "a", "r", "g", "e">>,
     <<"x", "x", "l", "a", "r", "g", "e">>, <<"x", "x", "x", "l", "a", "r", "g", "e">>}

\* str.lower() on the letters of the size names
lower(s) ==
    [i \in 1..Len(s) |->
        CASE s[i] = "S" -> "s" [] s[i] = "M" -> "m" [] s[i] = "A" -> "a"
          [] s[i] = "L" -> "l" [] s[i] = "E" -> "e" [] s[i] = "D" -> "d"
          [] s[i] = "I" -> "i" [] s[i] = "U" -> "u" [] s[i] = "R" -> "r"
          [] s[i] = "G" -> "g" [] s[i] = "X" -> "x" [] OTHER -> s[i]]

\* _render_centered_text(text, color, size): the text it puts on the
\* screen, or the BadParameter of a size that is no preset
_render_centered_text(t, sz) ==
    IF StripWs(lower(sz)) \notin SIZE_PRESETS
    THEN [raised |-> "BadParameter", text |-> <<>>]
    ELSE [raised |-> "none", text |-> t]

\* math.ceil(ticks / TicksPerSecond)
CeilSeconds(ticks) == (ticks + TicksPerSecond - 1) \div TicksPerSecond

\* the remaining seconds without the clamp to zero
Remaining_NoClamp(e, n) == CeilSeconds(e - n)

\* max(0, int(math.ceil(end - now)))
Remaining(e, n) == IF CeilSeconds(e - n) < 0 THEN 0 ELSE CeilSeconds(e - n)

\* the readings the clock can give after a reading c when at least d ticks
\* pass
Later(c, d) == {r \in (c + d)..(c + d + MaxLag) : r <= MaxClock}

\* the values given on the command line
Countdowns ==
    {<< <<"2">> >>, << <<"0">> >>, << <<"0", ":", "0", ":", "3">> >>,
     << <<"0">>, <<"0">>, <<"1">> >>, << <<"1">>, <<"1", "0">> >>,
     << <<"0">>, <<"0">> >>, << <<"1">>, <<"0">>, <<"1">> >>,
     << <<>> >>, << <<"a">> >>, << <<"1">>, <<"2">>, <<"3">>, <<"4">> >>}

\* the values of --size
Sizes == {medium, <<" ", "S", "m", "a", "l", "l">>, <<"h", "u", "g", "e">>}

InitCountdown ==
    /\ pc = "parse"
    /\ fn = "countdown"
    /\ values \in Countdowns
    /\ size \in Sizes
    /\ monotonic \in 0..1
    /\ total = 0
    /\ start = 0
    /\ end = 0
    /\ now = 0
    /\ remaining = 0
    /\ last_remaining = None
    /\ live = <<>>
    /\ out = <<>>
    /\ err = "none"
    /\ ChequeIdle
    /\ CallsIdle
    /\ TreeIdle
    /\ RenameIdle
    /\ YoutubeIdle
    /\ WordIdle

\* total = _parse_countdown_spec(" ".join(values).strip())
ParseSpec ==
    /\ fn = "countdown"
    /\ pc = "parse"
    /\ LET r == _parse_countdown_spec(StripWs(Join(values, <<" ">>)))
       IN  IF r.raised # "none"
           THEN pc' = "raised" /\ err' = r.raised /\ UNCHANGED total
           ELSE pc' = "start" /\ total' = r.total /\ UNCHANGED err
    /\ UNCHANGED <<fn, value, dollars, cents, zh, en, arg, ret, out>>
    /\ UNCHANGED <<callVars, treeVars, renameVars, youtubeVars, wordVars>>
    /\ UNCHANGED <<values, size, start, end, now, remaining, last_remaining,
                   monotonic, live>>

\* start = time.monotonic(); end = start + total; the Live display opens
\* and last_remaining = None
ReadStart ==
    /\ fn = "countdown"
    /\ pc = "start"
    /\ \E r \in Later(monotonic, 0) :
          /\ monotonic' = r
          /\ start' = r
          /\ end' = r + total * TicksPerSecond
    /\ last_remaining' = None
    /\ pc' = "now"
    /\ UNCHANGED <<fn, value, dollars, cents, zh, en, arg, ret, out, err>>
    /\ UNCHANGED <<callVars, treeVars, renameVars, youtubeVars, wordVars>>
    /\ UNCHANGED <<values, size, total, now, remaining, live>>

\* now = time.monotonic(); remaining = max(0, int(math.ceil(end - now)))
ReadNow ==
    /\ fn = "countdown"
    /\ pc = "now"
    /\ \E r \in Later(monotonic, 0) :
          /\ monotonic' = r
          /\ now' = r
          /\ remaining' = Remaining(end, r)
    /\ pc' = "update"
    /\ UNCHANGED <<fn, value, dollars, cents, zh, en, arg, ret, out, err>>
    /\ UNCHANGED <<callVars, treeVars, renameVars, youtubeVars, wordVars>>
    /\ UNCHANGED <<values, size, total, start, end, last_remaining, live>>

\* if remaining != last_remaining: live.update(...); last_remaining =
\* remaining
Update ==
    /\ fn = "countdown"
    /\ pc = "update"
    /\ LET r == _render_centered_text(_format_hms(remaining), size)
       IN  IF remaining = last_remaining
           THEN /\ pc' = "hold"
                /\ UNCHANGED <<live, last_remaining, err>>
           ELSE IF r.raised # "none"
           THEN /\ pc' = "raised"
                /\ err' = r.raised
                /\ UNCHANGED <<live, last_remaining>>
           ELSE /\ pc' = "hold"
                /\ live' = r.text
                /\ last_remaining' = remaining
                /\ UNCHANGED err
    /\ UNCHANGED <<fn, value, dollars, cents, zh, en, arg, ret, out>>
    /\ UNCHANGED <<callVars, treeVars, renameVars, youtubeVars, wordVars>>
    /\ UNCHANGED <<values, size, total, start, end, now, remaining, monotonic>>

\* if remaining == 0: time.sleep(0.1); continue
Hold ==
    /\ fn = "countdown"
    /\ pc = "hold"
    /\ IF remaining = 0
       THEN /\ \E r \in Later(monotonic, 0) : monotonic' = r
            /\ pc' = "now"
       ELSE /\ pc' = "sleep"
            /\ UNCHANGED monotonic
    /\ UNCHANGED <<fn, value, dollars, cents, zh, en, arg, ret, out, err>>
    /\ UNCHANGED <<callVars, treeVars, renameVars, youtubeVars, wordVars>>
    /\ UNCHANGED <<values, size, total, start, end, now, remaining,
                   last_remaining, live>>

\* dt = end - (remaining - 1) - time.monotonic(); if dt > 0: time.sleep(dt)
Sleep ==
    /\ fn = "countdown"
    /\ pc = "sleep"
    /\ \E read \in Later(monotonic, 0) :
          LET dt == end - (remaining - 1) * TicksPerSecond - read
          IN  \E r \in Later(read, IF dt > 0 THEN dt ELSE 0) : monotonic' = r
    /\ pc' = "now"
    /\ UNCHANGED <<fn, value, dollars, cents, zh, en, arg, ret, out, err>>
    /\ UNCHANGED <<callVars, treeVars, renameVars, youtubeVars, wordVars>>
    /\ UNCHANGED <<values, size, total, start, end, now, remaining,
                   last_remaining, live>>

\* except KeyboardInterrupt: pass
KeyboardInterrupt ==
    /\ fn = "countdown"
    /\ pc \in {"now", "update", "hold", "sleep"}
    /\ pc' = "done"
    /\ UNCHANGED <<fn, value, dollars, cents, zh, en, arg, ret, out, err>>
    /\ UNCHANGED <<callVars, treeVars, toolVars>>

NextCountdown ==
    \/ ParseSpec
    \/ ReadStart
    \/ ReadNow
    \/ Update
    \/ Hold
    \/ Sleep
    \/ KeyboardInterrupt

SpecCountdown == InitCountdown /\ [][NextCountdown]_vars


(***************************************************************************)
(* The youtube command: one action per block of youtube().  A format       *)
(* expression is a string; an option or a local that holds None holds      *)
(* NoneStr.  output_dir holds the --out option until the command resolves  *)
(* the directory.  attempts lists the calls of extract_info: the format    *)
(* of the options, the download argument and what the call gave: "info"    *)
(* for an info dict, "None", or the name of the exception it raised.       *)
(***************************************************************************)
\* bool(x) of an optional string
Truthy(str) == str # NoneStr /\ str # ""

\* the test of the metadata branch always false
NoDownloadFlag_Never(v, a, sub, f) == FALSE

\* not (video or audio or subtitle or fmt)
NoDownloadFlag(v, a, sub, f) == ~(v \/ a \/ sub \/ Truthy(f))

\* what extract_info can give
Outcomes == {"info", "None", "ExtractorError", "DownloadError"}

Call(format, download, outcome) ==
    [format |-> format, download |-> download, outcome |-> outcome]

\* the values of --fmt and of --out
Fmts == {NoneStr, "", "137+251"}

Outs == {NoneStr, "~/videos"}

\* Path.home() / 'Desktop', or Path(out).expanduser()
OutputDir(o) == IF o = NoneStr THEN "/home/Desktop" ELSE "/home/videos"

\* one candidate, 'best', whatever the flags
FormatCandidates_BestOnly(v, f, opts) == <<"best">>

\* format_candidates of lines 93-102
FormatCandidates(v, f, opts) ==
    IF v /\ ~Truthy(f)
    THEN <<"bestvideo[ext=mp4]+bestaudio[ext=m4a]/best[ext=mp4]",
           "bestvideo*+bestaudio*/bestvideo+bestaudio",
           "best">>
    ELSE <<IF opts.format # "unset" /\ opts.format # "" THEN opts.format ELSE "best">>

\* ydl_opts after the blocks of lines 65-89
Options(opts, v, a, sub, f) ==
    LET o1 == IF sub
              THEN [opts EXCEPT !.writesubtitles = TRUE,
                                !.writeautomaticsub = TRUE,
                                !.subtitleslangs = <<"en">>]
              ELSE opts
        o2 == IF sub /\ ~(v \/ a) THEN [o1 EXCEPT !.skip_download = TRUE] ELSE o1
    IN  IF Truthy(f) THEN [o2 EXCEPT !.format = f]
        ELSE IF a /\ ~v
        THEN [o2 EXCEPT !.format = "bestaudio/best",
                        !.postprocessors = <<"FFmpegExtractAudio">>]
        ELSE o2

InitYoutube ==
    /\ pc = "list"
    /\ fn = "youtube"
    /\ video \in BOOLEAN
    /\ audio \in BOOLEAN
    /\ subtitle \in BOOLEAN
    /\ list_formats \in BOOLEAN
    /\ fmt \in Fmts
    /\ output_dir \in Outs
    /\ ydl_opts = NoOpts
    /\ format_candidates = <<>>
    /\ result = NoneStr
    /\ last_error = NoneStr
    /\ directories = {}
    /\ attempts = <<>>
    /\ out = <<>>
    /\ err = "none"
    /\ ChequeIdle
    /\ CallsIdle
    /\ TreeIdle
    /\ RenameIdle
    /\ ClockIdle
    /\ WordIdle

\* with yt_dlp.YoutubeDL({}) as ydl: info = ydl.extract_info(url,
\* download=False), then the printing of info
MetadataOnly(lines) ==
    \E o \in {"info", "DownloadError"} :
        /\ attempts' = Append(attempts, Call("unset", FALSE, o))
        /\ IF o = "info"
           THEN pc' = "done" /\ out' = out \o lines /\ UNCHANGED err
           ELSE pc' = "raised" /\ err' = o /\ UNCHANGED out

\* if list_formats: ... return
ListFormats ==
    /\ fn = "youtube"
    /\ pc = "list"
    /\ IF list_formats
       THEN MetadataOnly(<<"formats">>)
       ELSE pc' = "metadata" /\ UNCHANGED <<attempts, out, err>>
    /\ UNCHANGED <<fn, value, dollars, cents, zh, en, arg, ret>>
    /\ UNCHANGED <<callVars, treeVars, renameVars, clockVars, wordVars>>
    /\ UNCHANGED <<video, audio, subtitle, list_formats, fmt, output_dir, ydl_opts,
                   format_candidates, result, last_error, directories>>

\* if not (video or audio or subtitle or fmt): ... return
ShowMetadata ==
    /\ fn = "youtube"
    /\ pc = "metadata"
    /\ IF NoDownloadFlag(video, audio, subtitle, fmt)
       THEN MetadataOnly(<<"metadata">>)
       ELSE pc' = "mkdir" /\ UNCHANGED <<attempts, out, err>>
    /\ UNCHANGED <<fn, value, dollars, cents, zh, en, arg, ret>>
    /\ UNCHANGED <<callVars, treeVars, renameVars, clockVars, wordVars>>
    /\ UNCHANGED <<video, audio, subtitle, list_formats, fmt, output_dir, ydl_opts,
                   format_candidates, result, last_error, directories>>

\* the output directory is resolved and made; ydl_opts = {'outtmpl': ...}
MakeOutputDir ==
    /\ fn = "youtube"
    /\ pc = "mkdir"
    /\ output_dir' = OutputDir(output_dir)
    /\ \E made \in BOOLEAN :
          IF made
          THEN /\ directories' = directories \cup {OutputDir(output_dir)}
               /\ ydl_opts' = [NoOpts EXCEPT !.outtmpl = OutputDir(output_dir)]
               /\ out' = out \o <<"[info] Output directory">>
               /\ pc' = "options"
               /\ UNCHANGED err
          ELSE /\ out' = out \o <<"[error] Failed creating output directory">>
               /\ pc' = "raised"
               /\ err' = "Exit(1)"
               /\ UNCHANGED <<directories, ydl_opts>>
    /\ UNCHANGED <<fn, value, dollars, cents, zh, en, arg, ret>>
    /\ UNCHANGED <<callVars, treeVars, renameVars, clockVars, wordVars>>
    /\ UNCHANGED <<video, audio, subtitle, list_formats, fmt, format_candidates,
                   result, last_error, attempts>>

\* the options of the flags, result = None, format_candidates and
\* last_error = None
SetOptions ==
    /\ fn = "youtube"
    /\ pc = "options"
    /\ ydl_opts' = Options(ydl_opts, video, audio, subtitle, fmt)
    /\ format_candidates' =
          FormatCandidates(video, fmt, Options(ydl_opts, video, audio, subtitle, fmt))
    /\ result' = NoneStr
    /\ last_error' = NoneStr
    /\ pc' = "attempt"
    /\ UNCHANGED <<fn, value, dollars, cents, zh, en, arg, ret, out, err>>
    /\ UNCHANGED <<callVars, treeVars, renameVars, clockVars, wordVars>>
    /\ UNCHANGED <<video, audio, subtitle, list_formats, fmt, output_dir,
                   directories, attempts>>

\* one turn of "for fexpr in format_candidates", or its end
Attempt ==
    /\ fn = "youtube"
    /\ pc = "attempt"
    /\ IF Len(attempts) >= Len(format_candidates)
       THEN /\ pc' = "result"
            /\ UNCHANGED <<ydl_opts, attempts, result, last_error, out, err>>
       ELSE LET fexpr == format_candidates[Len(attempts) + 1]
            IN  \E o \in Outcomes :
                  /\ ydl_opts' = [ydl_opts EXCEPT !.format = fexpr]
                  /\ attempts' = Append(attempts,
                                        Call(fexpr, ~ydl_opts.skip_download, o))
                  /\ IF o = "info"
                     THEN /\ result' = "info"
                          /\ out' = IF fexpr # format_candidates[1]
                                    THEN out \o <<"[info] Succeeded with fallback format expression">>
                                    ELSE out
                          /\ pc' = "result"
                          /\ UNCHANGED <<last_error, err>>
                     ELSE IF o = "None"
                     THEN /\ result' = NoneStr
                          /\ pc' = "attempt"
                          /\ UNCHANGED <<last_error, out, err>>
                     ELSE IF o = "ExtractorError"
                     THEN /\ last_error' = o
                          /\ out' = out \o <<"[warn] Failed with format">>
                          /\ pc' = "attempt"
                          /\ UNCHANGED <<result, err>>
                     ELSE /\ pc' = "raised"
                          /\ err' = o
                          /\ UNCHANGED <<result, last_error, out>>
    /\ UNCHANGED <<fn, value, dollars, cents, zh, en, arg, ret>>
    /\ UNCHANGED <<callVars, treeVars, renameVars, clockVars, wordVars>>
    /\ UNCHANGED <<video, audio, subtitle, list_formats, fmt, output_dir,
                   format_candidates, directories>>

\* if result is None: ... raise typer.Exit(code=1); _show_meta(result) and
\* the three lines of what was downloaded
ShowResult ==
    /\ fn = "youtube"
    /\ pc = "result"
    /\ IF result = NoneStr
       THEN /\ out' = out \o <<"[error] All format attempts failed.">>
                      \o (IF last_error # NoneStr THEN <<"Last error">> ELSE <<>>)
                      \o <<"Hint">>
            /\ err' = "Exit(1)"
            /\ pc' = "raised"
       ELSE /\ out' = out \o <<"metadata", ">> Downloaded Video", ">> Downloaded Audio",
                               ">> Downloaded Subtitle">>
            /\ pc' = "done"
            /\ UNCHANGED err
    /\ UNCHANGED <<fn, value, dollars, cents, zh, en, arg, ret>>
    /\ UNCHANGED <<callVars, treeVars, toolVars>>

NextYoutube ==
    \/ ListFormats
    \/ ShowMetadata
    \/ MakeOutputDir
    \/ SetOptions
    \/ Attempt
    \/ ShowResult

SpecYoutube == InitYoutube /\ [][NextYoutube]_vars


(***************************************************************************)
(* _download_file_with_certifi_tls of word_md.py (word.py has the same     *)
(* function), statement by statement.  A file is a record [there, data];   *)
(* data is the sequence of the chunks written to it.  The server has the   *)
(* body `served`, which response.read(65536) returns chunk by chunk and    *)
(* then the empty chunk.  fault names the statement of the try block that  *)
(* raises, and for a read or a write the chunk at which it does; the       *)
(* file-system calls outside the try block (mkdir, unlink, replace) do not *)
(* fail.                                                                   *)
(***************************************************************************)
\* the longest body, in chunks
MaxChunks == 2

Chunks == {"a", "b"}

Bodies == UNION {[1..n -> Chunks] : n \in 0..MaxChunks}

File(content) == [there |-> TRUE, data |-> content]

\* what is at output_path and at temp_path before the call
OutputFiles == {Absent, File(<<"old">>)}

TempFiles == {Absent, File(<<"stale">>)}

Faults ==
    {[at |-> a, chunk |-> 0] :
        a \in {"none", "certifi", "HTTPError", "URLError", "open", "close"}}
    \cup {[at |-> "read", chunk |-> k] : k \in 1..(MaxChunks + 1)}
    \cup {[at |-> "write", chunk |-> k] : k \in 1..MaxChunks}

InitDownload ==
    /\ pc = "import"
    /\ fn = "_download_file_with_certifi_tls"
    /\ output_file \in OutputFiles
    /\ temp_file \in TempFiles
    /\ served \in Bodies
    /\ fault \in Faults
    /\ chunks_read = 0
    /\ ok = FALSE
    /\ out = <<>>
    /\ err = "none"
    /\ ChequeIdle
    /\ CallsIdle
    /\ TreeIdle
    /\ RenameIdle
    /\ ClockIdle
    /\ YoutubeIdle

\* try: import certifi / except Exception: raise CloudConvertError; then
\* mkdir, temp_path, ssl_context, ok = False
ImportCertifi ==
    /\ fn = "_download_file_with_certifi_tls"
    /\ pc = "import"
    /\ IF fault.at = "certifi"
       THEN /\ err' = "CloudConvertError"
            /\ out' = <<"The 'certifi' package is required">>
            /\ pc' = "raised"
            /\ UNCHANGED ok
       ELSE /\ ok' = FALSE
            /\ pc' = "urlopen"
            /\ UNCHANGED <<err, out>>
    /\ UNCHANGED <<fn, value, dollars, cents, zh, en, arg, ret>>
    /\ UNCHANGED <<output_file, temp_file, served, chunks_read, fault>>
    /\ UNCHANGED <<callVars, treeVars, renameVars, clockVars, youtubeVars>>

\* with urlrequest.urlopen(req, timeout=300, context=ssl_context) as response
UrlOpen ==
    /\ fn = "_download_file_with_certifi_tls"
    /\ pc = "urlopen"
    /\ pc' = IF fault.at \in {"HTTPError", "URLError"} THEN "except" ELSE "open"
    /\ UNCHANGED <<fn, value, dollars, cents, zh, en, arg, ret, out, err>>
    /\ UNCHANGED wordVars
    /\ UNCHANGED <<callVars, treeVars, renameVars, clockVars, youtubeVars>>

\* temp_path.open("wb") as target
OpenTemp ==
    /\ fn = "_download_file_with_certifi_tls"
    /\ pc = "open"
    /\ IF fault.at = "open"
       THEN /\ pc' = "except"
            /\ UNCHANGED temp_file
       ELSE /\ temp_file' = File(<<>>)
            /\ pc' = "read"
    /\ UNCHANGED <<fn, value, dollars, cents, zh, en, arg, ret, out, err>>
    /\ UNCHANGED <<output_file, served, chunks_read, ok, fault>>
    /\ UNCHANGED <<callVars, treeVars, renameVars, clockVars, youtubeVars>>

\* chunk = response.read(65536); if not chunk: break
ReadChunk ==
    /\ fn = "_download_file_with_certifi_tls"
    /\ pc = "read"
    /\ IF fault.at = "read" /\ fault.chunk = chunks_read + 1
       THEN /\ pc' = "except"
            /\ UNCHANGED chunks_read
       ELSE IF chunks_read = Len(served)
       THEN /\ pc' = "close"
            /\ UNCHANGED chunks_read
       ELSE /\ chunks_read' = chunks_read + 1
            /\ pc' = "write"
    /\ UNCHANGED <<fn, value, dollars, cents, zh, en, arg, ret, out, err>>
    /\ UNCHANGED <<output_file, temp_file, served, ok, fault>>
    /\ UNCHANGED <<callVars, treeVars, renameVars, clockVars, youtubeVars>>

\* target.write(chunk)
WriteChunk ==
    /\ fn = "_download_file_with_certifi_tls"
    /\ pc = "write"
    /\ IF fault.at = "write" /\ fault.chunk = chunks_read
       THEN /\ pc' = "except"
            /\ UNCHANGED temp_file
       ELSE /\ temp_file' = File(temp_file.data \o <<served[chunks_read]>>)
            /\ pc' = "read"
    /\ UNCHANGED <<fn, value, dollars, cents, zh, en, arg, ret, out, err>>
    /\ UNCHANGED <<output_file, served, chunks_read, ok, fault>>
    /\ UNCHANGED <<callVars, treeVars, renameVars, clockVars, youtubeVars>>

\* the end of the with block closes target and response; ok = True
CloseFiles ==
    /\ fn = "_download_file_with_certifi_tls"
    /\ pc = "close"
    /\ IF fault.at = "close"
       THEN /\ pc' = "except"
            /\ UNCHANGED ok
       ELSE /\ ok' = TRUE
            /\ pc' = "finally"
    /\ UNCHANGED <<fn, value, dollars, cents, zh, en, arg, ret, out, err>>
    /\ UNCHANGED <<output_file, temp_file, served, chunks_read, fault>>
    /\ UNCHANGED <<callVars, treeVars, renameVars, clockVars, youtubeVars>>

\* except urlerror.HTTPError / urlerror.URLError / Exception:
\*     raise CloudConvertError(...) from exc
Except ==
    /\ fn = "_download_file_with_certifi_tls"
    /\ pc = "except"
    /\ err' = "CloudConvertError"
    /\ out' = IF fault.at = "HTTPError" THEN <<"Download HTTP error">>
              ELSE IF fault.at = "URLError" THEN <<"Download URL/TLS error.">>
              ELSE <<"Download failed">>
    /\ pc' = "finally"
    /\ UNCHANGED <<fn, value, dollars, cents, zh, en, arg, ret>>
    /\ UNCHANGED wordVars
    /\ UNCHANGED <<callVars, treeVars, renameVars, clockVars, youtubeVars>>

\* the finally block that leaves the temporary file where it is
Cleanup_KeepsTemp(done, file) == file

\* if (not ok) and temp_path.exists(): temp_path.unlink()
Cleanup(done, file) == IF ~done /\ file.there THEN Absent ELSE file

\* finally: ...; the exception, if there is one, goes on to the caller
Finally ==
    /\ fn = "_download_file_with_certifi_tls"
    /\ pc = "finally"
    /\ temp_file' = Cleanup(ok, temp_file)
    /\ pc' = IF err # "none" THEN "raised" ELSE "replace"
    /\ UNCHANGED <<fn, value, dollars, cents, zh, en, arg, ret, out, err>>
    /\ UNCHANGED <<output_file, served, chunks_read, ok, fault>>
    /\ UNCHANGED <<callVars, treeVars, renameVars, clockVars, youtubeVars>>

\* temp_path.replace(output_path)
Replace ==
    /\ fn = "_download_file_with_certifi_tls"
    /\ pc = "replace"
    /\ output_file' = temp_file
    /\ temp_file' = Absent
    /\ pc' = "done"
    /\ UNCHANGED <<fn, value, dollars, cents, zh, en, arg, ret, out, err>>
    /\ UNCHANGED <<served, chunks_read, ok, fault>>
    /\ UNCHANGED <<callVars, treeVars, renameVars, clockVars, youtubeVars>>

NextDownload ==
    \/ ImportCertifi
    \/ UrlOpen
    \/ OpenTemp
    \/ ReadChunk
    \/ WriteChunk
    \/ CloseFiles
    \/ Except
    \/ Finally
    \/ Replace

SpecDownload == InitDownload /\ [][NextDownload]_vars


(***************************************************************************)
(* Properties of the cheque command (specification Spec).                  *)
(***************************************************************************)
\* _parse_amount has returned a pair for the command's text
Parsed ==
    /\ fn = "cheque"
    /\ \/ pc \in {"range", "format_zh", "format_en", "echo_zh", "echo_en", "done"}
       \/ pc = "raised" /\ err \in {"too_large", "ValueError"}

\* _parse_amount has raised for the command's text
Rejected ==
    /\ fn = "cheque"
    /\ pc = "raised"
    /\ err \notin {"too_large", "ValueError"}

\* the spec's error kinds of the typer.BadParameter raises of _parse_amount
InvalidFormat == {"required", "not_a_number", "not_finite"}

PrecisionExceeded == {"too_many_decimals"}

NegativeAmount == {"negative"}

RangeExceeded == {"too_large"}

\* the magnitude of whole * 100 + subunit for a pair with 0 <= subunit <= 99
MinorUnits(whole, subunit) ==
    Strip(whole.mag \o <<subunit \div 10, subunit % 10>>)

\* m is exactly 100 times the value of the numeral d: int * 10^(exp + 2)
IsHundredTimes(m, d) ==
    IF d.exp + 2 >= 0 THEN m = Strip(d.int \o Zeros(d.exp + 2))
    ELSE LET k == 0 - (d.exp + 2)
             padded == PadLeft(d.int, k)
         IN  /\ \A i \in 1..k : padded[Len(padded) + 1 - i] = 0
             /\ m = Strip(DropLast(padded, k))

\* C1: for every text _parse_amount accepts, the pair (whole, subunit) has
\* whole >= 0, 0 <= subunit <= 99 and whole * 100 + subunit is exactly 100
\* times the decimal value of the text without blanks and commas: nothing is
\* rounded; "123" gives (123, 0), "123.45" (123, 45), "1,234.50" (1234, 50).
C1_ParsedPairIsExact ==
    Parsed =>
        /\ ~dollars.neg
        /\ cents \in 0..99
        /\ Decimal(CleanText(value)).kind = "num"
        /\ IsHundredTimes(MinorUnits(dollars, cents), Decimal(CleanText(value)))
        /\ value = <<"1", "2", "3">> => dollars.mag = <<1, 2, 3>> /\ cents = 0
        /\ value = <<"1", "2", "3", ".", "4", "5">>
              => dollars.mag = <<1, 2, 3>> /\ cents = 45
        /\ value = <<"1", ",", "2", "3", "4", ".", "5", "0">>
              => dollars.mag = <<1, 2, 3, 4>> /\ cents = 50

C1_Witness ==
    /\ Parsed
    /\ value = <<"1", ",", "2", "3", "4", ".", "5", "0">>
    /\ dollars.mag = <<1, 2, 3, 4>>
    /\ cents = 50

\* a non-empty run of digits with at most one decimal point
IsPlainNumeral(t) ==
    /\ \A i \in 1..Len(t) : t[i] \in DigitChars \cup {"."}
    /\ \E i \in 1..Len(t) : t[i] \in DigitChars
    /\ \A i, j \in 1..Len(t) : t[i] = "." /\ t[j] = "." => i = j

\* the number of characters that follow the decimal point of a plain numeral
FractionLen(t) == IF FirstIndex(t, ".") = 0 THEN 0 ELSE Len(t) - FirstIndex(t, ".")

\* C2: _parse_amount fails with PrecisionExceeded for every text in which
\* more than two digits follow the decimal point, whatever the digits are.
C2_ThreeDecimalsAlwaysRejected ==
    (/\ fn = "cheque"
     /\ pc # "parse"
     /\ IsPlainNumeral(CleanText(value))
     /\ FractionLen(CleanText(value)) > 2)
        => Rejected /\ err \in PrecisionExceeded

\* C3: without blanks and commas, every text that is not a plain numeral
\* (empty, signed, in exponent notation, ...) is rejected and gives no pair;
\* the rejection of a signed text as NegativeAmount is counted as one.
C3_OnlyPlainNumeralsAccepted ==
    (/\ fn = "cheque"
     /\ pc # "parse"
     /\ ~IsPlainNumeral(CleanText(value)))
        => Rejected /\ err \in InvalidFormat \cup NegativeAmount

\* the text reads as a value below zero: a negative number or -Infinity
ReadsBelowZero(t) ==
    /\ Decimal(t).sign = 1
    /\ \/ Decimal(t).kind = "inf"
       \/ Decimal(t).kind = "num" /\ ~IsZero(Decimal(t).int)

\* C4 as stated: _parse_amount fails with NegativeAmount for every input
\* whose parsed value is below zero.
C4_BelowZeroIsNegativeAmount ==
    (fn = "cheque" /\ pc # "parse" /\ ReadsBelowZero(CleanText(value)))
        => Rejected /\ err \in NegativeAmount

\* C4 (amended): _parse_amount fails with NegativeAmount for every input
\* whose parsed value is finite and below zero, rejects -Infinity as not
\* finite, and never returns a pair with a negative component.
C4_FiniteBelowZeroIsNegativeAmount ==
    /\ (fn = "cheque" /\ pc # "parse" /\ ReadsBelowZero(CleanText(value)))
          => /\ Rejected
             /\ Decimal(CleanText(value)).kind = "num" => err \in NegativeAmount
             /\ Decimal(CleanText(value)).kind = "inf" => err = "not_finite"
    /\ Parsed => ~dollars.neg /\ cents >= 0

C4_Witness ==
    /\ Rejected
    /\ value = <<"-", "1">>
    /\ err = "negative"

\* the text is an amount: a finite number, not below zero, with no digit
\* beyond the cents
IsAmount(t) ==
    /\ Decimal(t).kind = "num"
    /\ ~DecNegative(Decimal(t))
    /\ Decimal(t).exp < -2 =>
          \A i \in 1..(0 - (Decimal(t).exp + 2)) :
              PadLeft(Decimal(t).int, 0 - (Decimal(t).exp + 2))
                  [Len(PadLeft(Decimal(t).int, 0 - (Decimal(t).exp + 2))) + 1 - i] = 0

\* the whole part of an amount exceeds 10^15 - 1: it has 16 digits or more
WholeExceedsMax(t) ==
    ~IsZero(Decimal(t).int) /\ Len(Decimal(t).int) + Decimal(t).exp > Len(_MAX_DOLLARS.mag)

\* C5: the command fails with RangeExceeded, and with nothing else, for
\* every amount whose whole part exceeds 10^15 - 1, however large, and never
\* rejects a smaller amount for its range.
C5_LargeAmountsAreRangeExceeded ==
    (/\ fn = "cheque"
     /\ pc \in {"done", "raised"}
     /\ IsPlainNumeral(CleanText(value))
     /\ IsAmount(CleanText(value)))
        => (WholeExceedsMax(CleanText(value))
                <=> (pc = "raised" /\ err \in RangeExceeded))

\* C6: the command writes both lines, the Chinese one first, or none: the
\* parse, the range check and both wordings are done before the first
\* write, and nothing fails between or after the two writes.
C6_BothLinesOrNone ==
    fn = "cheque" =>
        /\ pc = "raised" => out = <<>>
        /\ out # <<>> =>
              /\ pc \in {"echo_en", "done"}
              /\ err = "none"
              /\ ~IntGt(dollars, _MAX_DOLLARS)
              /\ zh = _format_zh_amount(dollars, cents).text
              /\ en = _format_en_amount(dollars, cents).text
              /\ out[1] = <<"zhongwen", ":", "gangbi">> \o zh
        /\ pc = "echo_en" => Len(out) = 1
        /\ pc = "done" =>
              /\ Len(out) = 2
              /\ out[2] = <<"English:", " ", "Hong", " ", "Kong", " ", "Dollars", " ">>
                            \o en \o <<" ", "only">>

C6_Witness ==
    /\ fn = "cheque"
    /\ pc = "done"
    /\ value = <<"1", "2", "3", ".", "4", "5">>
    /\ Len(out) = 2


(***************************************************************************)
(* Properties of the expanders (specification SpecExpand).                 *)
(***************************************************************************)
\* _to_trad_chinese_upper has returned the wording of a supported n
ZhReturned ==
    /\ fn = "_to_trad_chinese_upper"
    /\ pc = "returned"
    /\ ~arg.neg
    /\ Len(arg.mag) <= 16

\* no two "ling" side by side, and none in front
NoDoubleNoLeadingLing(t) ==
    /\ t # <<>>
    /\ t[1] # "ling"
    /\ \A i \in 1..(Len(t) - 1) : ~(t[i] = "ling" /\ t[i + 1] = "ling")

\* C7 as stated: for every n with 0 <= n < 10^16 the Chinese wording has no
\* two consecutive "ling" and does not begin with "ling".
C7_NoDoubleNoLeadingLingFromZero ==
    ZhReturned => err = "none" /\ NoDoubleNoLeadingLing(ret)

\* C7 (amended): for every n with 1 <= n < 10^16 the Chinese wording has no
\* two consecutive "ling" and does not begin with "ling"; the wording of 0
\* is the single glyph "ling".
C7_NoDoubleNoLeadingLing ==
    ZhReturned =>
        /\ err = "none"
        /\ ~IsZero(arg.mag) => NoDoubleNoLeadingLing(ret)
        /\ IsZero(arg.mag) => ret = <<"ling">>

C7_Witness ==
    /\ ZhReturned
    /\ arg.mag = <<1, 0, 0, 0, 0, 0, 5>>
    /\ ret = <<"yi", "bai", "wan", "ling", "wu">>

\* group j of n in base 10000, j = 1 the highest of the four (10^12)
Group4(n, j) == SmallVal(SubSeq(PadLeft(n.mag, 16), 4 * j - 3, 4 * j))

\* the scale glyph behind group j
ScaleGlyph(j) ==
    CASE j = 1 -> <<"zhao">> [] j = 2 -> <<"yik">> [] j = 3 -> <<"wan">>
      [] j = 4 -> <<>>

\* the rule for group j: nothing for a zero group; else a "ling" iff a
\* higher group is rendered and either the group above is zero (groups were
\* skipped) or the group is below 1000, then the group and its scale glyph
GroupPiece(n, j) ==
    IF Group4(n, j) = 0 THEN <<>>
    ELSE (IF /\ \E h \in 1..(j - 1) : Group4(n, h) # 0
             /\ (Group4(n, j - 1) = 0 \/ Group4(n, j) < 1000)
          THEN <<"ling">> ELSE <<>>)
         \o _convert_group_zh(Group4(n, j)) \o ScaleGlyph(j)

\* C8: between the base-10000 groups, taken from the highest, a single
\* "ling" stands before a non-zero group iff a higher group was rendered
\* and either zero groups were skipped since it or the group is below 1000:
\* 120034 has one between the two groups, 2000001 exactly one.
C8_LingBetweenGroups ==
    (ZhReturned /\ ~IsZero(arg.mag)) =>
        /\ ret = GroupPiece(arg, 1) \o GroupPiece(arg, 2)
                    \o GroupPiece(arg, 3) \o GroupPiece(arg, 4)
        /\ arg.mag = <<1, 2, 0, 0, 3, 4>>
              => ret = <<"yi", "shi", "er", "wan", "ling", "san", "shi", "si">>
        /\ arg.mag = <<2, 0, 0, 0, 0, 0, 1>>
              => Cardinality({i \in 1..Len(ret) : ret[i] = "ling"}) = 1

C8_Witness ==
    /\ ZhReturned
    /\ arg.mag = <<2, 0, 0, 0, 0, 0, 1>>
    /\ ret = <<"er", "bai", "wan", "ling", "yi">>

\* the four decimal digits of g, the thousands first
Digits4(g) == [i \in 1..4 |-> (g \div (10 ^ (4 - i))) % 10]

\* the positional unit behind digit i
UnitGlyph(i) ==
    CASE i = 1 -> <<"qian">> [] i = 2 -> <<"bai">> [] i = 3 -> <<"shi">>
      [] i = 4 -> <<>>

\* the rule for digit i: nothing for a zero; else a "ling" iff the digit
\* ends a run of zeros that began behind a non-zero digit, then its glyph
\* and its unit
DigitPiece(g, i) ==
    IF Digits4(g)[i] = 0 THEN <<>>
    ELSE (IF /\ \E h \in 1..(i - 1) : Digits4(g)[h] # 0
             /\ Digits4(g)[i - 1] = 0
          THEN <<"ling">> ELSE <<>>)
         \o <<_DIGITS_UPPER[Digits4(g)[i]]>> \o UnitGlyph(i)

\* the maximal runs of zero digits of g between two non-zero digits, each
\* named by the digit that ends it
InnerZeroRuns(g) ==
    {i \in 2..4 : /\ Digits4(g)[i] # 0
                  /\ Digits4(g)[i - 1] = 0
                  /\ \E h \in 1..(i - 1) : Digits4(g)[h] # 0}

\* C9: for 1 <= g <= 9999 _convert_group_zh writes each non-zero digit as
\* its glyph and its unit (qian, bai, shi, none) and exactly one "ling" for
\* each maximal run of zeros between two non-zero digits; leading and
\* trailing zeros give nothing, the result neither begins nor ends with
\* "ling".
C9_GroupWording ==
    (fn = "_convert_group_zh" /\ pc = "returned" /\ arg \in 1..9999) =>
        /\ ret = DigitPiece(arg, 1) \o DigitPiece(arg, 2)
                    \o DigitPiece(arg, 3) \o DigitPiece(arg, 4)
        /\ Cardinality({i \in 1..Len(ret) : ret[i] = "ling"})
              = Cardinality(InnerZeroRuns(arg))
        /\ ret # <<>>
        /\ ret[1] # "ling"
        /\ ret[Len(ret)] # "ling"

C9_Witness ==
    /\ fn = "_convert_group_zh"
    /\ pc = "returned"
    /\ arg = 1001
    /\ ret = <<"yi", "qian", "ling", "yi">>

\* group j of n in base 1000, j = 1 the lowest, for n < 10^15
Group3(n, j) == SmallVal(SubSeq(PadLeft(n.mag, 15), 16 - 3 * j, 18 - 3 * j))

\* the lowest non-zero base-1000 group of n > 0
LowestGroup(n) ==
    CHOOSE j \in 1..5 : Group3(n, j) # 0 /\ \A h \in 1..(j - 1) : Group3(n, h) = 0

\* the scale word behind group j
ScaleWord(j) ==
    CASE j = 1 -> <<>> [] j = 2 -> <<" ", "thousand">> [] j = 3 -> <<" ", "million">>
      [] j = 4 -> <<" ", "billion">> [] j = 5 -> <<" ", "trillion">>

\* the last rendered group of n with its scale word
LastPiece(n) ==
    _under_1000_to_words(Group3(n, LowestGroup(n))) \o ScaleWord(LowestGroup(n))

\* t ends with "and", a blank and the piece p
EndsWithAndThen(t, p) ==
    /\ Len(t) >= Len(p) + 2
    /\ SubSeq(t, Len(t) - Len(p) + 1, Len(t)) = p
    /\ t[Len(t) - Len(p) - 1] = "and"
    /\ t[Len(t) - Len(p)] = " "

\* C10: in the English wording the last rendered group is prefixed with
\* "and" iff two or more base-1000 groups are non-zero and the lowest
\* non-zero group, which need not be the units group, is below 100.
C10_AndBeforeLastGroup ==
    (/\ fn = "_to_english_hk"
     /\ pc = "returned"
     /\ ~arg.neg
     /\ ~IsZero(arg.mag)
     /\ Len(arg.mag) <= 15) =>
        /\ err = "none"
        /\ EndsWithAndThen(ret, LastPiece(arg))
              <=> /\ Cardinality({j \in 1..5 : Group3(arg, j) # 0}) >= 2
                  /\ Group3(arg, LowestGroup(arg)) < 100
        /\ \/ EndsWithAndThen(ret, LastPiece(arg))
           \/ ret = Capitalise(LastPiece(arg))
           \/ /\ Len(ret) >= Len(LastPiece(arg)) + 2
              /\ SubSeq(ret, Len(ret) - Len(LastPiece(arg)) + 1, Len(ret))
                    = LastPiece(arg)

C10_Witness ==
    /\ fn = "_to_english_hk"
    /\ pc = "returned"
    /\ arg.mag = <<1, 0, 0, 1, 0, 0, 0>>
    /\ ret = <<"One", " ", "million", " ", "and", " ", "one", " ", "thousand">>


(***************************************************************************)
(* Properties of the group helper and the composers (SpecFormat).          *)
(***************************************************************************)
\* the number words of 0..19
NumberWord(r) ==
    CASE r = 0 -> "zero" [] r = 1 -> "one" [] r = 2 -> "two" [] r = 3 -> "three"
      [] r = 4 -> "four" [] r = 5 -> "five" [] r = 6 -> "six" [] r = 7 -> "seven"
      [] r = 8 -> "eight" [] r = 9 -> "nine" [] r = 10 -> "ten"
      [] r = 11 -> "eleven" [] r = 12 -> "twelve" [] r = 13 -> "thirteen"
      [] r = 14 -> "fourteen" [] r = 15 -> "fifteen" [] r = 16 -> "sixteen"
      [] r = 17 -> "seventeen" [] r = 18 -> "eighteen" [] r = 19 -> "nineteen"

\* the tens words of 20, 30, ..., 90
TensWord(t) ==
    CASE t = 2 -> "twenty" [] t = 3 -> "thirty" [] t = 4 -> "forty"
      [] t = 5 -> "fifty" [] t = 6 -> "sixty" [] t = 7 -> "seventy"
      [] t = 8 -> "eighty" [] t = 9 -> "ninety"

\* the words of r in 0..99: the number word up to 19, else the tens word,
\* with a hyphen and the ones word iff r is no multiple of 10
WordsBelow100(r) ==
    IF r <= 19 THEN <<NumberWord(r)>>
    ELSE IF r % 10 = 0 THEN <<TensWord(r \div 10)>>
    ELSE <<TensWord(r \div 10), "-", NumberWord(r % 10)>>

\* C11: for g in 1..999 _under_1000_to_words(g) is "<digit> hundred" for a
\* multiple of 100, "<digit> hundred and <r words>" for g >= 100 with
\* r = g mod 100 > 0, and "<r words>" for g < 100; the r words are the
\* number word for r <= 19, else the tens word, hyphenated with the ones
\* word iff r is no multiple of 10.
C11_GroupWords ==
    (fn = "_under_1000_to_words" /\ pc = "returned" /\ arg \in 1..999) =>
        /\ (arg >= 100 /\ arg % 100 = 0)
              => ret = <<NumberWord(arg \div 100), " ", "hundred">>
        /\ (arg >= 100 /\ arg % 100 # 0)
              => ret = <<NumberWord(arg \div 100), " ", "hundred", " ", "and", " ">>
                          \o WordsBelow100(arg % 100)
        /\ arg < 100 => ret = WordsBelow100(arg)
        /\ arg = 21 => ret = <<"twenty", "-", "one">>
        /\ arg = 102 => ret = <<"one", " ", "hundred", " ", "and", " ", "two">>

C11_Witness ==
    /\ fn = "_under_1000_to_words"
    /\ pc = "returned"
    /\ arg = 121
    /\ ret = <<"one", " ", "hundred", " ", "and", " ", "twenty", "-", "one">>


(***************************************************************************)
(* Further properties of the expanders (SpecExpand).                       *)
(***************************************************************************)
\* _to_english_hk has returned, or raised, for n >= 0
EnReturned ==
    /\ fn = "_to_english_hk"
    /\ pc = "returned"
    /\ ~arg.neg

\* the piece of group j of n: none for a zero group
EnPiece(n, j) ==
    IF Group3(n, j) = 0 THEN <<>>
    ELSE << _under_1000_to_words(Group3(n, j)) \o ScaleWord(j) >>

\* the pieces of the non-zero groups of n, the highest scale first
EnPieces(n) ==
    EnPiece(n, 5) \o EnPiece(n, 4) \o EnPiece(n, 3) \o EnPiece(n, 2) \o EnPiece(n, 1)

\* list with "and" and a blank in front of its last piece
AndBeforeLast(list) ==
    SubSeq(list, 1, Len(list) - 1) \o << <<"and", " ">> \o list[Len(list)] >>

\* C12: for n in 1..10^15-1 _to_english_hk(n) renders exactly the non-zero
\* base-1000 groups of n, the highest scale first, each group above the
\* units group followed by its scale word and the units group by none, the
\* pieces separated by exactly one blank, no blank in front or behind.
C12_GroupsHighestFirst ==
    (EnReturned /\ ~IsZero(arg.mag) /\ Len(arg.mag) <= 15) =>
        /\ err = "none"
        /\ \/ ret = Capitalise(Join(EnPieces(arg), <<" ">>))
           \/ ret = Capitalise(Join(AndBeforeLast(EnPieces(arg)), <<" ">>))
        /\ ret[1] # " "
        /\ ret[Len(ret)] # " "
        /\ \A i \in 1..(Len(ret) - 1) : ~(ret[i] = " " /\ ret[i + 1] = " ")

C12_Witness ==
    /\ EnReturned
    /\ arg.mag = <<2, 0, 0, 0, 0, 0, 1>>
    /\ ret = <<"Two", " ", "million", " ", "and", " ", "one">>


(***************************************************************************)
(* Properties of the composers (SpecFormat).                               *)
(***************************************************************************)
\* the financial glyph of a digit 1..9
FinancialGlyph(k) ==
    CASE k = 1 -> "yi" [] k = 2 -> "er" [] k = 3 -> "san" [] k = 4 -> "si"
      [] k = 5 -> "wu" [] k = 6 -> "liu" [] k = 7 -> "qi" [] k = 8 -> "ba"
      [] k = 9 -> "jiu"

\* the wording of subunit behind "yuan"
SubunitGlyphs(subunit) ==
    IF subunit = 0 THEN <<"zheng">>
    ELSE (IF subunit \div 10 # 0 THEN <<FinancialGlyph(subunit \div 10), "jiao">>
          ELSE <<"ling">>)
         \o (IF subunit % 10 # 0 THEN <<FinancialGlyph(subunit % 10), "fen">>
             ELSE <<>>)

\* C13: _format_zh_amount(whole, subunit) is the Chinese expansion of whole,
\* "yuan", and then "zheng" for subunit = 0; else "<glyph> jiao" for a
\* non-zero tens digit, one "ling" for a zero tens digit before a non-zero
\* cents digit, and "<glyph> fen" for a non-zero cents digit; (0, 5) gives
\* ling yuan ling wu fen, (123, 40) gives yi bai er shi san yuan si jiao.
C13_ChineseAmount ==
    (/\ fn = "_format_zh_amount"
     /\ pc = "returned"
     /\ _to_trad_chinese_upper(dollars).raised = "none") =>
        /\ err = "none"
        /\ ret = _to_trad_chinese_upper(dollars).text \o <<"yuan">>
                    \o SubunitGlyphs(cents)
        /\ (dollars.mag = <<0>> /\ cents = 5)
              => ret = <<"ling", "yuan", "ling", "wu", "fen">>
        /\ (dollars.mag = <<1, 2, 3>> /\ cents = 40)
              => ret = <<"yi", "bai", "er", "shi", "san", "yuan", "si", "jiao">>

C13_Witness ==
    /\ fn = "_format_zh_amount"
    /\ pc = "returned"
    /\ dollars.mag = <<0>>
    /\ cents = 5
    /\ ret = <<"ling", "yuan", "ling", "wu", "fen">>

\* C14: _format_en_amount(whole, subunit) is the English expansion of whole
\* alone for subunit = 0, else that expansion followed by " and <subunit
\* words> cent" for subunit = 1 and " and <subunit words> cents" for
\* subunit in 2..99; (123, 45) gives "One hundred and twenty-three and
\* forty-five cents", (1, 1) gives "One and one cent".
C14_EnglishAmount ==
    (/\ fn = "_format_en_amount"
     /\ pc = "returned"
     /\ _to_english_hk(dollars).raised = "none") =>
        /\ err = "none"
        /\ cents = 0 => ret = _to_english_hk(dollars).text
        /\ cents = 1 => ret = _to_english_hk(dollars).text
                                \o <<" ", "and", " ", "one", " ", "cent">>
        /\ cents \in 2..99 =>
              ret = _to_english_hk(dollars).text \o <<" ", "and", " ">>
                       \o WordsBelow100(cents) \o <<" ", "cents">>
        /\ (dollars.mag = <<1, 2, 3>> /\ cents = 45)
              => ret = <<"One", " ", "hundred", " ", "and", " ", "twenty", "-",
                         "three", " ", "and", " ", "forty", "-", "five", " ",
                         "cents">>
        /\ (dollars.mag = <<1>> /\ cents = 1)
              => ret = <<"One", " ", "and", " ", "one", " ", "cent">>

C14_Witness ==
    /\ fn = "_format_en_amount"
    /\ pc = "returned"
    /\ dollars.mag = <<1>>
    /\ cents = 1
    /\ ret = <<"One", " ", "and", " ", "one", " ", "cent">>


\* the words and separators of the lower-case tables
LowerVocabulary ==
    {NumberWord(r) : r \in 0..19} \cup {TensWord(t) : t \in 2..9}
        \cup {"hundred", "and", "thousand", "million", "billion", "trillion",
              " ", "-"}

\* the words a wording can begin with, the first character in upper case
CapitalWords ==
    {"Zero", "One", "Two", "Three", "Four", "Five", "Six", "Seven", "Eight",
     "Nine", "Ten", "Eleven", "Twelve", "Thirteen", "Fourteen", "Fifteen",
     "Sixteen", "Seventeen", "Eighteen", "Nineteen", "Twenty", "Thirty",
     "Forty", "Fifty", "Sixty", "Seventy", "Eighty", "Ninety"}

\* C15: for every n in the supported range _to_english_hk(n) begins with an
\* upper-case character and every other character is as the lower-case
\* word tables give it; n = 0 gives "Zero", and _to_trad_chinese_upper(0)
\* the single glyph "ling".
C15_OnlyFirstCharacterUpper ==
    /\ (EnReturned /\ Len(arg.mag) <= 15) =>
          /\ err = "none"
          /\ ret # <<>>
          /\ ret[1] \in CapitalWords
          /\ \A i \in 2..Len(ret) : ret[i] \in LowerVocabulary
          /\ IsZero(arg.mag) => ret = <<"Zero">>
    /\ (ZhReturned /\ IsZero(arg.mag)) => ret = <<"ling">>

C15_Witness ==
    /\ EnReturned
    /\ arg.mag = <<1, 0, 2, 1>>
    /\ ret = <<"One", " ", "thousand", " ", "and", " ", "twenty", "-", "one">>


\* the k decimal digits of a group value g < 10^k, the highest first
GroupDigitsOf(g, k) == [i \in 1..k |-> (g \div (10 ^ (k - i))) % 10]

\* the digits of the sum of groups[i] * (10^k)^(i-1), leading zeros kept
RECURSIVE SumDigits(_, _)
SumDigits(groups, k) ==
    IF groups = <<>> THEN <<>>
    ELSE SumDigits(Tail(groups), k) \o GroupDigitsOf(groups[1], k)

\* groups is the list of n in base 10^k: every element below the base, the
\* most significant one not zero, the sum exactly n (no element for n = 0)
IsGroupList(groups, k, n) ==
    /\ \A i \in 1..Len(groups) : groups[i] \in 0..(10 ^ k - 1)
    /\ groups # <<>> => groups[Len(groups)] # 0
    /\ IF IsZero(n.mag) THEN groups = <<>>
       ELSE groups # <<>> /\ Strip(SumDigits(groups, k)) = n.mag

\* C16: for every n >= 0 the group lists of the two expanders (n mod 10000
\* and n mod 1000, each time divided by the base, the least significant
\* first) have every element in 0..9999 respectively 0..999, a non-zero
\* most significant element, and sum(group[i] * base^i) = n exactly.
C16_GroupsRecomposeToN ==
    /\ (fn = "_to_trad_chinese_upper" /\ pc = "returned" /\ ~arg.neg)
          => IsGroupList(Groups(arg, 4), 4, arg)
    /\ EnReturned => IsGroupList(Groups(arg, 3), 3, arg)

C16_Witness ==
    /\ fn = "_to_trad_chinese_upper"
    /\ pc = "returned"
    /\ arg.mag = <<1, 2, 0, 0, 3, 4>>
    /\ Groups(arg, 4) = <<34, 12>>
    /\ Groups(arg, 3) = <<34, 120>>


\* C17: _to_trad_chinese_upper raises the scale error exactly when
\* n >= 10^16 (more than four base-10000 groups), _to_english_hk exactly
\* when n >= 10^15 (more than five base-1000 groups); below these bounds
\* each returns a wording and does not raise.
C17_ScaleExceeded ==
    /\ (fn = "_to_trad_chinese_upper" /\ pc = "returned" /\ ~arg.neg) =>
          /\ err = "ValueError" <=> Len(arg.mag) > 16
          /\ Len(arg.mag) <= 16 => err = "none" /\ ret # <<>>
    /\ EnReturned =>
          /\ err = "ValueError" <=> Len(arg.mag) > 15
          /\ Len(arg.mag) <= 15 => err = "none" /\ ret # <<>>

C17_Witness ==
    /\ EnReturned
    /\ arg.mag = <<1>> \o Zeros(15)
    /\ err = "ValueError"


(***************************************************************************)
(* Properties of concurrent calls (SpecConcurrent).                        *)
(***************************************************************************)
\* what the call of caller k gives when it runs alone
AloneResult(k) ==
    IF calls[k].fn = "_format_zh_amount"
    THEN _format_zh_amount(calls[k].d, calls[k].c)
    ELSE _format_en_amount(calls[k].d, calls[k].c)

TreeBuilt == fn = "show" /\ pc = "done"

\* the paths of the entries in tree, the tree of directory p: a node of an
\* entry is labelled with a blank and the name
RECURSIVE TreeEntries(_, _)
TreeEntries(tree, p) ==
    UNION { IF tree.children[i].label[1] = " "
            THEN {Append(p, Tail(tree.children[i].label))}
                 \cup TreeEntries(tree.children[i],
                                  Append(p, Tail(tree.children[i].label)))
            ELSE {} : i \in 1..Len(tree.children) }

\* the entries of the file system below directory p
EntriesBelow(p) ==
    {q \in DOMAIN fs : Len(q) > Len(p) /\ SubSeq(q, 1, Len(p)) = p}

\* the level of entry q below directory p, 1 for the entries of p itself
LevelBelow(q, p) == Len(q) - Len(p)

\* entry q below p can be shown: every directory between p and q can be
\* listed, and with --skip-hidden no name from p to q begins with "." or "_"
CanBeShown(q, p) ==
    /\ \A i \in (Len(p) + 1)..(Len(q) - 1) : fs[SubSeq(q, 1, i)] = "dir"
    /\ skip => \A i \in (Len(p) + 1)..Len(q) : q[i][1] \notin {".", "_"}

\* C19 as stated: with a depth limit d > 0 the tree contains exactly the
\* entries whose level below the root is at most d; with d = 0 it contains
\* every entry at every level.
C19_ExactlyTheEntriesToDepth ==
    TreeBuilt =>
        /\ depth > 0 =>
              TreeEntries(tree_obj, expanduser(path))
                  = {q \in EntriesBelow(expanduser(path)) :
                          LevelBelow(q, expanduser(path)) <= depth}
        /\ depth = 0 =>
              TreeEntries(tree_obj, expanduser(path))
                  = EntriesBelow(expanduser(path))

\* C19 (amended): with a depth limit d > 0 the tree contains exactly the
\* entries whose level below the root is at most d, and with d = 0 the
\* entries of every level, that --skip-hidden does not leave out and that
\* lie in directories that can be listed.
C19_ShownEntriesToDepth ==
    TreeBuilt =>
        /\ depth > 0 =>
              TreeEntries(tree_obj, expanduser(path))
                  = {q \in EntriesBelow(expanduser(path)) :
                          /\ LevelBelow(q, expanduser(path)) <= depth
                          /\ CanBeShown(q, expanduser(path))}
        /\ depth = 0 =>
              TreeEntries(tree_obj, expanduser(path))
                  = {q \in EntriesBelow(expanduser(path)) :
                          CanBeShown(q, expanduser(path))}

C19_Witness ==
    /\ TreeBuilt
    /\ depth = 1
    /\ ~skip
    /\ path = Home
    /\ <<Home[1], DirName>> \in TreeEntries(tree_obj, Home)
    /\ <<Home[1], DirName, FileName>> \in DOMAIN fs
    /\ <<Home[1], DirName, FileName>> \notin TreeEntries(tree_obj, Home)

\* the target of show() is a regular file
TargetIsFile ==
    /\ fn = "show"
    /\ expanduser(path) \in DOMAIN fs
    /\ fs[expanduser(path)] = "file"

\* the characters t are part of the text of some line
Contains(line, t) ==
    \E i \in 0..(Len(line) - Len(t)) : SubSeq(line, i + 1, i + Len(t)) = t

\* C20: building the tree for a target that is a regular file completes
\* without an error and gives a tree whose rendering contains the name of
\* the file.
C20_FileTargetGivesTree ==
    (TargetIsFile /\ pc # "show") =>
        /\ pc = "done"
        /\ err = "none"
        /\ \E i \in 1..Len(out) : Contains(out[i].text, path[Len(path)])


(***************************************************************************)
(* Properties of the rename command (specification SpecRename).            *)
(***************************************************************************)
\* the command has created the module file in a folder it can write
ModuleFileCreated ==
    /\ fn = "rename"
    /\ exists
    /\ writable
    /\ \E i \in 1..Len(out) :
          out[i] \in {"Created module from template",
                      "Template not found. Created empty module file"}

\* the loading of the callback is over: the files are next, or the command
\* has ended
LoadingOver == pc \in {"files", "done", "raised"}

\* the file holds the line 'def <func>(filepath: str):'
HoldsDefinition(file, name) ==
    \E i \in 1..Len(file.lines) : file.lines[i] = DefLine(name)

\* C21: when the module file did not exist, loading the callback creates
\* it and appends a stub for a missing func; afterwards the file exists,
\* holds the line 'def <func>(filepath: str):' and the callback obtained is
\* callable.
C21_CreatedModuleGivesCallable ==
    (ModuleFileCreated /\ LoadingOver) =>
        /\ module_file.there
        /\ HoldsDefinition(module_file, func)
        /\ callable(callable_fn)


(***************************************************************************)
(* Properties of the pure functions of clock.py (specification SpecClock). *)
(***************************************************************************)
\* the positions where a maximal run of digits of s begins
RunStarts(s) ==
    {a \in 1..Len(s) : s[a] \in DigitChars /\ (a = 1 \/ s[a - 1] \notin DigitChars)}

\* the position where the run of digits that begins at a ends
RunEnd(s, a) ==
    CHOOSE b \in a..Len(s) :
        /\ \A j \in a..b : s[j] \in DigitChars
        /\ (b = Len(s) \/ s[b + 1] \notin DigitChars)

\* the number written by the digits s[a..b]
RECURSIVE DigitsValue(_, _, _)
DigitsValue(s, a, b) ==
    IF a > b THEN 0
    ELSE DigitVal(s[a]) * (10 ^ (b - a)) + DigitsValue(s, a + 1, b)

\* the k-th integer of s from the left
Integer(s, k) ==
    LET a == CHOOSE p \in RunStarts(s) :
                 Cardinality({q \in RunStarts(s) : q < p}) = k - 1
    IN  DigitsValue(s, a, RunEnd(s, a))

Integers(s) == Cardinality(RunStarts(s))

\* the seconds the countdown rules give to a text of one to three integers
RuleSeconds(s) ==
    IF Integers(s) = 1 THEN Integer(s, 1)
    ELSE IF Integers(s) = 2 THEN Integer(s, 1) * 3600 + Integer(s, 2) * 60
    ELSE Integer(s, 1) * 3600 + Integer(s, 2) * 60 + Integer(s, 3)

ParseCalled == fn = "_parse_countdown_spec" /\ pc # "call"

FormatCalled == fn = "_format_hms" /\ pc = "returned"

\* the positions of the colons of the returned text
Colons == {i \in 1..Len(ret) : ret[i] = ":"}

FirstColon == CHOOSE i \in Colons : \A j \in Colons : i <= j

LastColon == CHOOSE i \in Colons : \A j \in Colons : j <= i

FieldIsNumber(a, b) == a <= b /\ \A j \in a..b : ret[j] \in DigitChars

\* C28: _format_hms(t) clamps a negative t to 0 and returns H:M:S with
\* 0 <= M <= 59, 0 <= S <= 59 and H*3600 + M*60 + S = t; each field has at
\* least two digits, padded with zeros, and the hours take more digits when
\* they need them.
C28_FieldsRecomposeToT ==
    FormatCalled =>
        /\ Cardinality(Colons) = 2
        /\ FieldIsNumber(1, FirstColon - 1)
        /\ FieldIsNumber(FirstColon + 1, LastColon - 1)
        /\ FieldIsNumber(LastColon + 1, Len(ret))
        /\ FirstColon - 1 >= 2
        /\ (FirstColon - 1 > 2 => ret[1] # "0")
        /\ LastColon - FirstColon - 1 = 2
        /\ Len(ret) - LastColon = 2
        /\ DigitsValue(ret, FirstColon + 1, LastColon - 1) <= 59
        /\ DigitsValue(ret, LastColon + 1, Len(ret)) <= 59
        /\ DigitsValue(ret, 1, FirstColon - 1) * 3600
             + DigitsValue(ret, FirstColon + 1, LastColon - 1) * 60
             + DigitsValue(ret, LastColon + 1, Len(ret))
           = (IF arg < 0 THEN 0 ELSE arg)

\* 360000 seconds came back with a three-digit hours field
C28_Witness ==
    /\ FormatCalled
    /\ arg = 360000
    /\ ret = <<"1", "0", "0", ":", "0", "0", ":", "0", "0">>


(***************************************************************************)
(* Properties of the countdown command (specification SpecCountdown).      *)
(***************************************************************************)
IsInteger(s) == s # <<>> /\ AllDigits(s)

\* the command was given two integers A and B and has parsed them
TwoIntegersGiven ==
    /\ fn = "countdown"
    /\ pc # "parse"
    /\ Len(values) = 2
    /\ IsInteger(values[1])
    /\ IsInteger(values[2])

A == DigitsValue(values[1], 1, Len(values[1]))

B == DigitsValue(values[2], 1, Len(values[2]))

Counting == fn = "countdown" /\ pc \in {"now", "update", "hold", "sleep", "done"}

Zero == <<"0", "0", ":", "0", "0", ":", "0", "0">>

\* what holds of every state of the loop: the remaining seconds lie in
\* 0..T, the display shows the value last drawn, and a reading of the clock
\* T seconds or more after the start leaves nothing
WithinCountdown ==
    Counting =>
        /\ remaining <= total
        /\ remaining >= 0
        /\ (last_remaining # None =>
               /\ last_remaining <= total
               /\ live = _format_hms(last_remaining)
               /\ (last_remaining = 0 => live = Zero))
        /\ ((pc = "update" /\ now - start >= total * TicksPerSecond)
               => remaining = 0)

\* what holds of every step of the loop: the value displayed does not
\* grow, a displayed zero stays, and the loop is left by KeyboardInterrupt
\* alone
CountsDown ==
    /\ (Counting /\ last_remaining # None) =>
           /\ last_remaining' # None
           /\ last_remaining' <= last_remaining
           /\ (last_remaining = 0 => last_remaining' = 0 /\ live' = Zero)
    /\ (Counting /\ pc # "done" /\ pc' \notin {"now", "update", "hold", "sleep"})
           => KeyboardInterrupt

\* C24 as stated: in a countdown of T seconds the value displayed never
\* exceeds T and never grows from one iteration to the next, it is 0 once T
\* seconds of monotonic time have passed and stays 0 (00:00:00) from then
\* on; the loop does not end by itself, only KeyboardInterrupt ends it.
C24_CountsDownAndHoldsAtZero == []WithinCountdown /\ [][CountsDown]_vars

SizeIsPreset == StripWs(lower(size)) \in SIZE_PRESETS

\* the first update of the display raises for a size that is no preset
FirstUpdateRaises ==
    /\ ~SizeIsPreset
    /\ pc = "update"
    /\ last_remaining = None
    /\ pc' = "raised"
    /\ err' = "BadParameter"

\* CountsDown with the one other way out of the loop
CountsDownOrRaises ==
    /\ (Counting /\ last_remaining # None) =>
           /\ last_remaining' # None
           /\ last_remaining' <= last_remaining
           /\ (last_remaining = 0 => last_remaining' = 0 /\ live' = Zero)
    /\ (Counting /\ pc # "done" /\ pc' \notin {"now", "update", "hold", "sleep"})
           => (KeyboardInterrupt \/ FirstUpdateRaises)
    /\ (Counting /\ SizeIsPreset) => pc' # "raised"

\* C24: in a countdown of T seconds whose --size is one of the presets the
\* value displayed never exceeds T and never grows from one iteration to
\* the next, it is 0 once T seconds of monotonic time have passed and stays
\* 0 (00:00:00) from then on; the loop does not end by itself, only
\* KeyboardInterrupt ends it.  With a --size that is no preset the first
\* update raises typer.BadParameter and nothing is displayed.
C24_CountsDownWithPresetSize == []WithinCountdown /\ [][CountsDownOrRaises]_vars

\* a countdown of two seconds has shown 2, has come to 00:00:00 and goes on
\* after its end
C24_Witness ==
    /\ Counting
    /\ pc = "hold"
    /\ total = 2
    /\ last_remaining = 0
    /\ live = Zero
    /\ monotonic > end


(***************************************************************************)
(* Properties of the youtube command (specification SpecYoutube).          *)
(***************************************************************************)
\* --list is given, or none of -v, -a, -s and --fmt
MetadataWanted ==
    /\ fn = "youtube"
    /\ \/ list_formats
       \/ (~video /\ ~audio /\ ~subtitle /\ fmt = NoneStr)

\* C25: with --list, or with none of -v, -a, -s and --fmt, the command only
\* extracts the metadata with the download disabled, makes no output
\* directory, starts no download and goes no further; --list comes before
\* every download flag.
C25_MetadataOnly ==
    MetadataWanted =>
        /\ pc \in {"list", "metadata", "done", "raised"}
        /\ directories = {}
        /\ output_dir \in Outs
        /\ format_candidates = <<>>
        /\ Len(attempts) <= 1
        /\ \A i \in 1..Len(attempts) :
              attempts[i].download = FALSE /\ attempts[i].format = "unset"
        /\ (pc = "done" => Len(attempts) = 1 /\ attempts[1].outcome = "info"
                           /\ out \in {<<"formats">>, <<"metadata">>})
        /\ (pc = "raised" => Len(attempts) = 1 /\ err = attempts[1].outcome)

\* --list with -v and a --fmt has printed the formats and returned
C25_Witness ==
    /\ MetadataWanted
    /\ list_formats
    /\ video
    /\ Truthy(fmt)
    /\ pc = "done"
    /\ out = <<"formats">>
    /\ Len(attempts) = 1

\* the three format expressions of -v in their order
Fallbacks ==
    <<"bestvideo[ext=mp4]+bestaudio[ext=m4a]/best[ext=mp4]",
      "bestvideo*+bestaudio*/bestvideo+bestaudio",
      "best">>

\* the loop over the format expressions was entered
LoopEntered == fn = "youtube" /\ format_candidates # <<>>

LoopLeft == LoopEntered /\ pc \in {"result", "done", "raised"}

CommandOver == LoopEntered /\ pc \in {"done", "raised"}

\* the exit code of the process: typer.Exit(code=1) and an exception that
\* nothing catches both end it with 1
ExitCode == IF pc = "raised" THEN 1 ELSE 0

SomeResult == \E i \in 1..Len(attempts) : attempts[i].outcome = "info"

\* the attempts use the expressions list in its order; a later one follows
\* only an ExtractorError or a call without result; no attempt produced a
\* result exactly when the command exits with code 1
AttemptsInOrder(list) ==
    /\ Len(attempts) <= Len(list)
    /\ \A i \in 1..Len(attempts) : attempts[i].format = list[i]
    /\ \A i \in 1..(Len(attempts) - 1) :
          attempts[i].outcome \in {"ExtractorError", "None"}
    /\ (CommandOver => (SomeResult <=> ExitCode = 0))

ExactlyOneAttempt ==
    /\ Len(attempts) <= 1
    /\ (LoopLeft => Len(attempts) = 1)
    /\ (CommandOver => (SomeResult <=> ExitCode = 0))

\* C29 as stated: with -v and without --fmt the three format expressions
\* are tried in their order, a later one only after the earlier attempt
\* raised ExtractorError or gave no result, none after the first result,
\* and the exit code is 1 when no attempt produced a result; with --fmt, or
\* with only -a or only -s, exactly one attempt is made.
C29_FallbackOrder ==
    LoopEntered =>
        /\ (video /\ fmt = NoneStr) => AttemptsInOrder(Fallbacks)
        /\ (fmt # NoneStr) => ExactlyOneAttempt
        /\ (audio /\ ~video /\ ~subtitle) => ExactlyOneAttempt
        /\ (subtitle /\ ~video /\ ~audio) => ExactlyOneAttempt

\* C29: with -v and without a non-empty --fmt the three format expressions
\* are tried in their order, a later one only after the earlier attempt
\* raised ExtractorError or gave no result, none after the first result,
\* and the exit code is 1 when no attempt produced a result; with a
\* non-empty --fmt, or with only -a or only -s, exactly one attempt is made.
C29_FallbackOrderNonEmptyFmt ==
    LoopEntered =>
        /\ (video /\ ~Truthy(fmt)) => AttemptsInOrder(Fallbacks)
        /\ Truthy(fmt) => ExactlyOneAttempt
        /\ (audio /\ ~video /\ ~subtitle) => ExactlyOneAttempt
        /\ (subtitle /\ ~video /\ ~audio) => ExactlyOneAttempt

\* -v alone: the first expression raised ExtractorError, the second gave no
\* result, the third gave one
C29_Witness ==
    /\ LoopEntered
    /\ video
    /\ fmt = NoneStr
    /\ pc = "done"
    /\ Len(attempts) = 3
    /\ attempts[1].outcome = "ExtractorError"
    /\ attempts[2].outcome = "None"
    /\ attempts[3].outcome = "info"


(***************************************************************************)
(* The range check against the scales of the expanders (specification      *)
(* Spec).                                                                  *)
(***************************************************************************)
\* _ensure_supported_range has returned
RangeChecked ==
    /\ fn = "cheque"
    /\ pc \in {"format_zh", "format_en", "echo_zh", "echo_en", "done"}

\* the errors raised before the range check has returned
EarlyErrors ==
    InvalidFormat \cup PrecisionExceeded \cup NegativeAmount \cup RangeExceeded
    \cup {"InvalidOperation"}

\* C26: every whole-dollar value that passes _ensure_supported_range
\* (0 <= dollars <= 10^15 - 1) lies inside the scale of both
\* _to_trad_chinese_upper and _to_english_hk, so once the parsing and the
\* range check have succeeded the cheque command does not fail and writes
\* both wordings.
C26_CheckedRangeIsInsideBothScales ==
    fn = "cheque" =>
        /\ (pc = "raised" => err \in EarlyErrors)
        /\ (RangeChecked =>
               /\ err = "none"
               /\ ~dollars.neg
               /\ ~IntGt(dollars, PyInt(FALSE, [i \in 1..15 |-> 9]))
               /\ _to_trad_chinese_upper(dollars).raised = "none"
               /\ _to_english_hk(dollars).raised = "none")
        /\ (pc = "done" =>
               /\ zh # <<>>
               /\ en # <<>>
               /\ out = <<ZhLine(zh), EnLine(en)>>)

\* the largest amount, 999,999,999,999,999.99, was written in both wordings
C26_Witness ==
    /\ fn = "cheque"
    /\ pc = "done"
    /\ value = Nines(15) \o <<".", "9", "9">>
    /\ dollars = PyInt(FALSE, [i \in 1..15 |-> 9])
    /\ Len(out) = 2


(***************************************************************************)
(* Properties of the wordings of two amounts (specification SpecWording).  *)
(***************************************************************************)
PairReturned == fn = "_format_zh_amount, _format_en_amount" /\ pc = "returned"

SameAmount == arg.d = dollars /\ arg.c = cents

\* C27: two different amounts (whole, subunit) of the supported range have
\* different Chinese wordings and different English wordings.
C27_WordingsAreInjective ==
    (PairReturned /\ ~SameAmount) => (zh # ret[1] /\ en # ret[2])

\* 100.01 and 101.00 were worded: "One hundred and one cent" and "One
\* hundred and one"
C27_Witness ==
    /\ PairReturned
    /\ dollars = PyInt(FALSE, <<1, 0, 0>>)
    /\ cents = 1
    /\ arg = [d |-> PyInt(FALSE, <<1, 0, 1>>), c |-> 0]
    /\ en = <<"One", " ", "hundred", " ", "and", " ", "one", " ", "cent">>
    /\ ret[2] = <<"One", " ", "hundred", " ", "and", " ", "one">>


(***************************************************************************)
(* Properties of the download (specification SpecDownload).                *)
(***************************************************************************)
Downloading == fn = "_download_file_with_certifi_tls"

\* the steps from the opening of the URL to the end of the finally block
Transferring ==
    pc \in {"urlopen", "open", "read", "write", "close", "except", "finally"}

\* the whole body is in the temporary file and the with block has ended
WholeBodyRead ==
    /\ ok
    /\ err = "none"
    /\ chunks_read = Len(served)
    /\ temp_file = File(served)

\* a step changes the file at output_path only by the replace that follows
\* a whole body
OutputOnlyReplaced ==
    (Downloading /\ output_file' # output_file) =>
        /\ pc = "replace"
        /\ WholeBodyRead
        /\ output_file' = File(served)

\* a step of the transfer writes to the temporary file or to nothing
OnlyTempWritten ==
    (Downloading /\ Transferring) => output_file' = output_file

\* certifi was missing: the call raised before it made its temporary file,
\* and what an earlier run left at temp_path was not touched
NeverOpened == fault.at = "certifi" /\ chunks_read = 0 /\ temp_file \in TempFiles

\* a failed download ends with CloudConvertError and the temporary file of
\* the call is removed
FailureCleansUp ==
    (Downloading /\ pc = "raised") =>
        /\ err = "CloudConvertError"
        /\ fault.at # "none"
        /\ temp_file = Absent \/ NeverOpened
        /\ ~ok

\* a failure of a statement of the try block is not survived
FaultFails ==
    (Downloading /\ pc = "done") =>
        /\ err = "none"
        /\ output_file = File(served)
        /\ temp_file = Absent

====
